---------------------------- MODULE Spec2Model ----------------------------
(***************************************************************************)
(* Media synchronisation engine of Berlin-dooh-device (src/media_sync.py). *)
(*                                                                         *)
(* Several sync() processes share one filesystem: the lock marker          *)
(* /tmp/vlc-sync.lock, the staging directory BASE_DIR/.media_staging and   *)
(* the live directory BASE_DIR/media.  A path is a sequence of segments    *)
(* from the filesystem root; a file is a path mapped to its data.          *)
(***************************************************************************)
EXTENDS Integers, Sequences, FiniteSets, TLC

(***************************************************************************)
(* Bounds                                                                  *)
(***************************************************************************)
\* The number of sync processes that may run at the same time.
NProcs == 2

\* The number of runs that may take the lock.
MaxRuns == 2

\* The number of rmtree calls that may hit an error (ignore_errors=True).
MaxFaults == 1

\* The largest configured value of MAX_RETRIES that is tried.
MaxConfigured == 3

\* The largest configured value of RETRY_DELAY that is tried.
MaxDelay == 2

\* The timeout of wait_for_vlc_release in seconds, scaled down from 30, and
\* the longest time one pass of its loop takes (the sleep of one second and
\* the commands before it).
WAIT_TIMEOUT == 4
MaxPollSecs == 3

\* The largest number of path segments of an archive entry tried on its own.
MaxSegs == 3

\* The largest number of lines of a playlist given to validate_playlist.
MaxLines == 4

\* The size cap and the size of one read, in bytes, scaled down from
\* 500 * 1024 * 1024 and 8192 so that every body size around the cap is tried.
MAX_ZIP_SIZE == 6
chunk_size == 2

Procs == 1..NProcs

(***************************************************************************)
(* Paths                                                                   *)
(***************************************************************************)
BASE_DIR == <<"base">>

MEDIA_DIR == BASE_DIR \o <<"media">>

STAGING_DIR == BASE_DIR \o <<".media_staging">>

\* The staging directory of main.py.
TEMP_DIR == BASE_DIR \o <<".media_temp">>

\* s is a (not necessarily proper) prefix of the sequence t.
IsPrefix(s, t) == Len(s) <= Len(t) /\ SubSeq(t, 1, Len(s)) = s

\* path lies strictly below the directory root.
IsDescendant(path, root) == IsPrefix(root, path) /\ Len(path) > Len(root)

\* Path resolution as the kernel and Path.resolve() do it (no symlinks):
\* ".." removes the last segment, every other segment is appended.
RECURSIVE Norm(_, _)
Norm(acc, segs) ==
    IF segs = <<>> THEN acc
    ELSE LET h == Head(segs) IN
         Norm(IF h = ".."
                 THEN (IF acc = <<>> THEN <<>> ELSE SubSeq(acc, 1, Len(acc) - 1))
                 ELSE acc \o <<h>>,
              Tail(segs))

\* Names of the model whose first character is '.'.
StartsWithDot(seg) == seg \in {"..", ".hidden", ".media_staging", ".media_staging2"}

\* Names of the model that match the glob "*.m3u".
EndsWithM3u(seg) == seg \in {"playlist.m3u", "playlist_local.m3u"}

\* str.startswith on two names of the model: seg starts with pre.
SegStartsWith(seg, pre) ==
    seg = pre \/ <<seg, pre>> \in {<<".media_staging2", ".media_staging">>}

\* str(path).startswith(str(root)) on '/'-joined absolute paths: the first
\* Len(root)-1 segments agree and the next one starts with root's last name.
StrStartsWith(path, root) ==
    /\ Len(path) >= Len(root)
    /\ SubSeq(path, 1, Len(root) - 1) = SubSeq(root, 1, Len(root) - 1)
    /\ SegStartsWith(path[Len(root)], root[Len(root)])

(***************************************************************************)
(* Playlist lines and archives                                             *)
(***************************************************************************)
\* A line that starts with '#': kept as text.
Comment(t) == [k |-> "comment", abs |-> FALSE, segs |-> <<t>>]

\* A line that is empty after strip().
Blank == [k |-> "blank", abs |-> FALSE, segs |-> <<>>]

\* A media reference: an absolute path (segments from the root) or a
\* relative one.
Ref(abs, segs) == [k |-> "ref", abs |-> abs, segs |-> segs]

\* A regular file entry of an archive: its name as segments and, when it
\* is a playlist, its lines.
FileEntry(segs, lines) == [segs |-> segs, dir |-> FALSE, lines |-> lines]

\* A directory entry of an archive (name ends with '/').
DirEntry(segs) == [segs |-> segs, dir |-> TRUE, lines |-> <<>>]

\* The remote contents the fetch can return.
\*  1: the scenario of the specification (one file present, one missing);
\*  2: a playlist whose only reference is missing;
\*  3: entries and references that leave the staging root;
\*  4: a folder with two playlists, each with a missing reference.
Archive(a) ==
    CASE a = 1 -> << DirEntry(<<"F">>),
                     FileEntry(<<"F", "a.mp4">>, <<>>),
                     FileEntry(<<"F", ".hidden">>, <<>>),
                     FileEntry(<<"F", "playlist.m3u">>,
                               << Comment("#EXTM3U"),
                                  Ref(FALSE, <<"a.mp4">>),
                                  Ref(FALSE, <<"missing.mp4">>) >>) >>
      [] a = 2 -> << FileEntry(<<"F", "b.mp4">>, <<>>),
                     FileEntry(<<"F", "playlist.m3u">>,
                               << Ref(FALSE, <<"missing.mp4">>) >>) >>
      [] a = 3 -> << FileEntry(<<"F", "..", "media", "evil.mp4">>, <<>>),
                     FileEntry(<<"F", "..", ".media_staging2", "x.mp4">>, <<>>),
                     FileEntry(<<"..", "up.mp4">>, <<>>),
                     FileEntry(<<"F", "c.mp4">>, <<>>),
                     FileEntry(<<"F", "playlist.m3u">>,
                               << Ref(FALSE, <<"..", ".media_staging2", "x.mp4">>),
                                  Ref(TRUE, <<"other", "c.mp4">>),
                                  Ref(TRUE, <<"base", ".media_staging", "c.mp4">>),
                                  Ref(FALSE, <<"c.mp4">>),
                                  Ref(FALSE, <<"..", "..", "etc", "passwd">>) >>) >>
      [] a = 4 -> << FileEntry(<<"F", "a.mp4">>, <<>>),
                     FileEntry(<<"F", "playlist.m3u">>,
                               << Ref(FALSE, <<"a.mp4">>),
                                  Ref(FALSE, <<"missing.mp4">>) >>),
                     FileEntry(<<"F", "playlist_local.m3u">>,
                               << Ref(FALSE, <<"missing.mp4">>),
                                  Ref(FALSE, <<"a.mp4">>) >>) >>

ArchiveIds == {1, 2, 3}

\* The data of a file: the archive entry it was written from (<<0, i>> for
\* the files present before any sync) and its lines.
Data(a, i, lines) == [src |-> <<a, i>>, lines |-> lines]

\* The tree published by an earlier sync.
OldLiveFiles ==
    (MEDIA_DIR \o <<"old.mp4">>) :> Data(0, 1, <<>>)
    @@ (MEDIA_DIR \o <<"playlist.m3u">>) :>
           Data(0, 2, << Comment("#EXTM3U"), Ref(FALSE, <<"old.mp4">>) >>)

(***************************************************************************)
(* Filesystem operations                                                   *)
(***************************************************************************)
\* The file paths below root.
Under(files, root) == {q \in DOMAIN files : IsDescendant(q, root)}

\* files without the paths in gone.
Without(files, gone) == [q \in (DOMAIN files) \ gone |-> files[q]]

\* Path.exists(): a file, a directory of the model, or a directory implied
\* by a file below it.
PathExists(files, dirs, path) ==
    \/ path \in DOMAIN files
    \/ path \in dirs
    \/ IsPrefix(path, BASE_DIR)
    \/ Under(files, path) # {}

\* The content of the directory root: whether it exists and its files by
\* their path relative to root.
Tree(files, dirs, root) ==
    [exists |-> root \in dirs,
     files  |-> [r \in {SubSeq(q, Len(root) + 1, Len(q)) : q \in Under(files, root)}
                   |-> files[root \o r]]]

\* shutil.rmtree(root, ignore_errors=True) behind an exists() test: the
\* tree is removed (err = 0), or, when errors may occur (mayFail), one file
\* cannot be removed, the error is ignored and that file and the directory
\* stay (err = 1).
Rmtree(files, dirs, root, mayFail) ==
    IF root \notin dirs
       THEN {[files |-> files, dirs |-> dirs, err |-> 0]}
       ELSE {[files |-> Without(files, Under(files, root)), dirs |-> dirs \ {root}, err |-> 0]}
            \cup {[files |-> Without(files, Under(files, root) \ keep), dirs |-> dirs, err |-> 1] :
                     keep \in IF mayFail THEN {{q} : q \in Under(files, root)} ELSE {}}

\* Path.rename(target) of the directory root: fails when root is missing
\* or target is a non-empty directory, otherwise root's files move to
\* target (an empty target directory is replaced).
RenameOk(files, dirs, root, target) ==
    root \in dirs /\ Under(files, target) = {}

RenameDir(files, dirs, root, target) ==
    [files |-> [q \in ((DOMAIN files) \ Under(files, root))
                      \cup {target \o SubSeq(r, Len(root) + 1, Len(r)) : r \in Under(files, root)}
                  |-> IF IsDescendant(q, target)
                         THEN files[root \o SubSeq(q, Len(target) + 1, Len(q))]
                         ELSE files[q]],
     dirs  |-> (dirs \ {root}) \cup {target}]

(***************************************************************************)
(* Extraction (the loop of sync over zf.infolist())                        *)
(***************************************************************************)
\* The name an entry is written under: the first segment is dropped when
\* there is more than one.
EntryName(e) == IF Len(e.segs) > 1 THEN Tail(e.segs) ELSE e.segs

\* The entries the loop skips: directories, names whose first character is
\* '.', and names whose last segment starts with '.'.
EntrySkipped(e) ==
    \/ e.dir
    \/ StartsWithDot(e.segs[1])
    \/ StartsWithDot(EntryName(e)[Len(EntryName(e))])

\* Where the entry is written: STAGING_DIR / name, as the kernel resolves it.
EntryDest(e) == Norm(STAGING_DIR, EntryName(e))

\* The directories of the model that writing to dest creates on the way.
MadeDirs(dest) ==
    {STAGING_DIR} \cup (IF IsDescendant(dest, MEDIA_DIR) THEN {MEDIA_DIR} ELSE {})

\* The filesystem after the loop has handled entries i..k of archive a.
RECURSIVE ExtractEntries(_, _, _, _, _)
ExtractEntries(files, dirs, a, i, k) ==
    IF i > k THEN [files |-> files, dirs |-> dirs]
    ELSE LET e == Archive(a)[i] IN
         IF EntrySkipped(e)
            THEN ExtractEntries(files, dirs, a, i + 1, k)
            ELSE ExtractEntries((EntryDest(e) :> Data(a, i, e.lines)) @@ files,
                                dirs \cup MadeDirs(EntryDest(e)), a, i + 1, k)

(***************************************************************************)
(* validate_playlist                                                       *)
(***************************************************************************)
\* The file a reference line is checked against; <<>> when the line is
\* dropped by the containment test.
MediaFile(line) ==
    IF line.abs
       THEN IF StrStartsWith(Norm(<<>>, line.segs), STAGING_DIR)
               THEN <<Norm(<<>>, line.segs)>>
               ELSE <<STAGING_DIR \o <<line.segs[Len(line.segs)]>> >>
       ELSE IF StrStartsWith(Norm(STAGING_DIR, line.segs), STAGING_DIR)
               THEN <<Norm(STAGING_DIR, line.segs)>>
               ELSE <<>>

\* A rewrite that writes the resolved path itself.
RewrittenResolved(mf) == Ref(TRUE, mf)

\* The line written for a surviving reference: the path relative to the
\* staging root, or the bare file name when relative_to() raises.
Rewritten(mf) ==
    IF IsPrefix(STAGING_DIR, mf)
       THEN Ref(FALSE, SubSeq(mf, Len(STAGING_DIR) + 1, Len(mf)))
       ELSE Ref(FALSE, <<mf[Len(mf)]>>)

\* What one input line contributes to the output: <<>> or one line.
ValidateLine(line, files, dirs) ==
    IF line.k # "ref" THEN <<line>>
    ELSE IF MediaFile(line) = <<>> THEN <<>>
    ELSE IF PathExists(files, dirs, MediaFile(line)[1])
            THEN <<Rewritten(MediaFile(line)[1])>>
            ELSE <<>>

\* The per-line results for the lines of a playlist.
ValidateLines(lines, files, dirs) ==
    [i \in 1..Len(lines) |-> ValidateLine(lines[i], files, dirs)]

\* A join that puts each line before the lines already joined.
RECURSIVE FlattenBackwards(_)
FlattenBackwards(ss) == IF ss = <<>> THEN <<>> ELSE FlattenBackwards(Tail(ss)) \o Head(ss)

RECURSIVE Flatten(_)
Flatten(ss) == IF ss = <<>> THEN <<>> ELSE Head(ss) \o Flatten(Tail(ss))

\* A test of valid_files that never finds it empty.
NeverEmpty(lines, res) == FALSE

\* valid_files is empty: no reference line survived.
NoValidFiles(lines, res) ==
    \A i \in 1..Len(lines) : lines[i].k = "ref" => res[i] = <<>>

\* The playlists sync tries: STAGING_DIR.glob("*.m3u").
StagedPlaylists(files) ==
    {q \in Under(files, STAGING_DIR) :
        Len(q) = Len(STAGING_DIR) + 1 /\ EndsWithM3u(q[Len(q)])}

(***************************************************************************)
(* code_update: versions and files                                         *)
(***************************************************************************)
\* A VERSION string: dotted integers, or a string int() does not take.
Version(parts) == [num |-> TRUE, parts |-> parts]

\* The string "unknown": no VERSION was found.
Unknown == [num |-> FALSE, parts |-> <<>>]

\* The versions tried.
Versions == {Unknown, Version(<<1, 0, 9>>), Version(<<1, 0, 10>>), Version(<<1, 1>>), Version(<<2>>)}

\* t1 < t2 on tuples of integers, as Python compares tuples.
RECURSIVE TupleLess(_, _)
TupleLess(t1, t2) ==
    IF t2 = <<>> THEN FALSE
    ELSE IF t1 = <<>> THEN TRUE
    ELSE IF Head(t1) # Head(t2) THEN Head(t1) < Head(t2)
    ELSE TupleLess(Tail(t1), Tail(t2))

\* v1 < v2 on the strings themselves: a string of digits and dots is
\* below "unknown", whose first character is a letter.
StringLess(v1, v2) == v1.num /\ ~v2.num

\* compare_versions, lines 44-69.
compare_versions(v1, v2) ==
    IF ~v1.num \/ ~v2.num
       THEN IF StringLess(v1, v2) THEN -1
            ELSE IF StringLess(v2, v1) THEN 1
            ELSE 0
       ELSE IF TupleLess(v1.parts, v2.parts) THEN -1
            ELSE IF TupleLess(v2.parts, v1.parts) THEN 1
            ELSE 0

\* files_to_download, lines 135-145: a Python file, the script, the
\* configuration file.
files_to_download == <<"main.py", "bootstrap.sh", "config.env">>

\* Line 176: remote_path.endswith('.py').
IsPy(f) == f \in {"main.py"}

\* Lines 192-196: the files whose mode is set after the downloads.
Chmodded == {"main.py", "bootstrap.sh"}

\* How the pass of the loop for file f can go: the request fails, the
\* content reaches the size limit, it does not compile or is not UTF-8
\* (Python files only), write_bytes fails part way, or the file is written.
FileOutcomes(f) ==
    {"http", "oversize", "write_fail", "ok"} \cup (IF IsPy(f) THEN {"syntax", "utf8"} ELSE {})

(***************************************************************************)
(* State                                                                   *)
(***************************************************************************)
VARIABLES
    pc,           \* pc[p]: where process p stands in sync()
    lock,         \* 0 when SYNC_LOCK does not exist, else the process that created
                  \* it, -1 once that process has been killed
    files,        \* the files of the filesystem: path |-> data
    dirs,         \* which of MEDIA_DIR, STAGING_DIR and TEMP_DIR exist as directories
    zip,          \* zip[p]: p's temporary zip file exists
    exit,         \* exit[p]: "none" while running, "ok" on return, "fail" on sys.exit(1)
    faults,       \* the number of rmtree calls that hit an error so far
    runs,         \* the number of runs that took the lock so far
    arch,         \* the archive fetched by the run that holds the lock, 0 before
    failedAt,     \* the step of that run that raised, "none" when none did
    killedAt,     \* the step at which that run was killed, "none" when it was not
    liveAtStart,  \* the live tree when that run took the lock
    newTree,      \* the staging tree that run's validation produced
    vin,          \* the playlist lines that run's validation read
    vres,         \* what each of those lines contributed to the output
    logged,       \* the failures that run's notification step met
    MAX_RETRIES,  \* the configured retry bound of a download_with_retry() call
    hist,         \* the outcome of each attempt that call has made, in order
    temps,        \* the number of temporary zip files of that call that exist
    ret,          \* how that call stands: "off", "called", "loop", or how it ended
    RETRY_DELAY,  \* the configured delay of that call, in seconds
    slept,        \* the arguments of that call's time.sleep calls, in order
    body,         \* the bytes of the response that have not been read yet
    data,         \* len(data): the bytes read from the response so far
    written,      \* the size of the temporary file written, -1 when none was
    entry,        \* the archive entry of an extraction step followed on its own
    elapsed,      \* time.time() - start of a wait_for_vlc_release() call, in seconds
    polls,        \* the passes of the loop of that call so far
    seen,         \* what the latest pass saw: the player running, the lsof result
    ulock,        \* 0 when /tmp/vlc-update.lock does not exist, else the process that created it
    local,        \* the installed code files: name |-> "absent", "old", "new" or "partial"
    oldVer,       \* the VERSION in the main.py installed before any update
    remoteVer,    \* the VERSION in the main.py of the repository
    step,         \* the index in files_to_download of the file update() handles next
    outcome,      \* how the download of each file went in the update() that holds the marker
    restarts,     \* the number of times update() has restarted the services
    env,          \* the device of the bootloader: a git checkout or not, the player
                  \* startable or not, run_vlc_after_update
    remoteSha,    \* the commit at the head of the branch on GitHub
    recorded,     \* the content of the .version file, "none" when it does not exist
    app,          \* the commit whose files are installed, "mixed" after a partial copy
    offer,        \* what check_for_updates saw and returned in the current run
    installRes,   \* the result of the latest download_and_install_update: "none", "ok", "failed"
    launches      \* the number of times the current run has started the player

vars == <<pc, lock, files, dirs, zip, exit, faults, runs, arch, failedAt, killedAt, liveAtStart, newTree, vin, vres,
          logged, MAX_RETRIES, hist, temps, ret, RETRY_DELAY, slept, body, data, written,
          entry, elapsed, polls, seen, ulock, local, oldVer, remoteVer, step, outcome, restarts,
          env, remoteSha, recorded, app, offer, installRes, launches>>

\* The record of the run that holds the lock.
run == <<arch, failedAt, killedAt, liveAtStart, newTree, vin, vres, logged>>

\* The frame of a wait_for_vlc_release() call.
waiting == <<elapsed, polls, seen>>

\* The state of code_update.update().
updating == <<ulock, local, oldVer, remoteVer, step, outcome, restarts>>

\* The state of the bootloader.
booting == <<env, remoteSha, recorded, app, offer, installRes, launches>>

\* The frame of a download_with_retry() call and the frames of the other
\* calls that are followed step by step on their own.
download == <<MAX_RETRIES, hist, temps, ret, RETRY_DELAY, slept, body, data, written, entry, waiting,
              updating, booting>>

\* The value of newTree and liveAtStart when nothing is recorded.
NoTree == [exists |-> FALSE, files |-> <<>>]

LiveTree == Tree(files, dirs, MEDIA_DIR)

StagingTree == Tree(files, dirs, STAGING_DIR)

\* The steps between the creation of the lock marker and its removal.
LockedPcs == {"prepare", "fetch", "extract", "validate", "wait",
              "swap_rm", "swap_mv", "notify", "release"}

\* The steps of a running process.
RunningPcs == LockedPcs \cup {"cleanup"}

\* The value of entry when no extraction step is followed on its own.
NoEntry == FileEntry(<<>>, <<>>)

\* The value of seen before the first pass.
NotSeen == [running |-> FALSE, lsof |-> "none"]

\* wait_for_vlc_release() has made no pass: line 95 has just read the clock.
InitNoWait ==
    /\ elapsed = 0
    /\ polls = 0
    /\ seen = NotSeen

\* No sync has run: no marker, no zip file, nothing recorded.
InitQuiet ==
    /\ InitNoWait
    /\ lock = 0
    /\ zip = [p \in Procs |-> FALSE]
    /\ exit = [p \in Procs |-> "none"]
    /\ faults = 0
    /\ runs = 0
    /\ failedAt = "none"
    /\ killedAt = "none"
    /\ liveAtStart = NoTree
    /\ newTree = NoTree
    /\ vin = <<>>
    /\ vres = <<>>
    /\ logged = {}

\* The value of outcome when no download has been tried.
NoneGot == [i \in 1..Len(files_to_download) |-> "none"]

\* No update() has run: the installed files are those of oldVer.
InitNoUpdate ==
    /\ ulock = 0
    /\ local = [i \in 1..Len(files_to_download) |-> "old"]
    /\ oldVer = Unknown
    /\ remoteVer = Unknown
    /\ step = 0
    /\ outcome = NoneGot
    /\ restarts = 0

\* The commits of the model.
Shas == {"a1", "b2"}

\* The value of offer before check_for_updates has run.
NoOffer == [avail |-> FALSE, ver |-> "none", local |-> "none", remote |-> "none"]

\* No bootloader has run.
InitNoBoot ==
    /\ env = [git |-> FALSE, player |-> TRUE, flag |-> TRUE]
    /\ remoteSha = "a1"
    /\ recorded = "none"
    /\ app = "a1"
    /\ offer = NoOffer
    /\ installRes = "none"
    /\ launches = 0

\* No sync has run and no extraction step is followed on its own.
InitIdle ==
    /\ entry = NoEntry
    /\ InitNoUpdate
    /\ InitNoBoot
    /\ InitQuiet

\* The disk and the bookkeeping before any sync has run.
InitSync ==
    /\ files = OldLiveFiles
    /\ dirs = {MEDIA_DIR}
    /\ arch = 0
    /\ InitIdle

\* No response is read byte by byte.
InitNoRead ==
    /\ slept = <<>>
    /\ body = 0
    /\ data = 0
    /\ written = -1

\* No download_with_retry() call is followed step by step.
InitNoCall ==
    /\ MAX_RETRIES = 0
    /\ RETRY_DELAY = 0
    /\ hist = <<>>
    /\ temps = 0
    /\ ret = "off"
    /\ InitNoRead

Init ==
    /\ pc = [p \in Procs |-> "idle"]
    /\ InitSync
    /\ InitNoCall

(***************************************************************************)
(* sync()                                                                  *)
(***************************************************************************)
\* A touch that does not test for the marker.
TouchAlways(lk) == TRUE

\* SYNC_LOCK.touch(exist_ok=False) succeeds exactly when the marker is absent.
TouchSucceeds(lk) == lk = 0

\* An except clause that prints the error and lets sync() return.
RaiseQuiet(p, st) ==
    /\ pc' = [pc EXCEPT ![p] = "release"]
    /\ exit' = [exit EXCEPT ![p] = "ok"]
    /\ failedAt' = st

\* An exception at step st: control goes through the except clause
\* (sys.exit(1)) to the finally clause.
Raise(p, st) ==
    /\ pc' = [pc EXCEPT ![p] = "release"]
    /\ exit' = [exit EXCEPT ![p] = "fail"]
    /\ failedAt' = st

\* A denied invocation that runs the unlink of the finally clause.
SkipUnlinks(lk) == 0

\* Lines 262-264: the return of a denied invocation comes before the try
\* block, so no finally clause runs and the marker stays as it is.
SkipLeaves(lk) == lk

\* Lines 259-264: create the lock marker or return at once.
Acquire(p) ==
    /\ pc[p] = "idle"
    /\ runs < MaxRuns
    /\ IF TouchSucceeds(lock)
          THEN /\ lock' = p
               /\ runs' = runs + 1
               /\ pc' = [pc EXCEPT ![p] = "prepare"]
               /\ arch' = 0
               /\ failedAt' = "none"
               /\ killedAt' = "none"
               /\ liveAtStart' = LiveTree
               /\ newTree' = NoTree
               /\ vin' = <<>>
               /\ vres' = <<>>
               /\ logged' = {}
          ELSE /\ pc' = [pc EXCEPT ![p] = "skipped"]
               /\ lock' = SkipLeaves(lock)
               /\ UNCHANGED <<runs, run>>
    /\ UNCHANGED <<files, dirs, zip, exit, faults, download>>

\* Lines 267-282: the URL and disk space checks, then the staging directory
\* is removed and created again.
Prepare(p) ==
    /\ pc[p] = "prepare"
    /\ \/ /\ Raise(p, "prepare")
          /\ UNCHANGED <<files, dirs, faults>>
       \/ /\ \E r \in Rmtree(files, dirs, STAGING_DIR, faults < MaxFaults) :
                /\ files' = r.files
                /\ dirs' = r.dirs \cup {STAGING_DIR}
                /\ faults' = faults + r.err
          /\ pc' = [pc EXCEPT ![p] = "fetch"]
          /\ UNCHANGED <<exit, failedAt>>
    /\ UNCHANGED <<lock, zip, runs, arch, killedAt, liveAtStart, newTree, vin, vres, logged, download>>

\* Line 285: download_with_retry() returns a temporary zip file or raises.
Fetch(p) ==
    /\ pc[p] = "fetch"
    /\ \/ /\ Raise(p, "fetch")
          /\ UNCHANGED <<zip, arch>>
       \/ \E a \in ArchiveIds :
             /\ zip' = [zip EXCEPT ![p] = TRUE]
             /\ arch' = a
             /\ pc' = [pc EXCEPT ![p] = "extract"]
             /\ UNCHANGED <<exit, failedAt>>
    /\ UNCHANGED <<lock, files, dirs, faults, runs, killedAt, liveAtStart, newTree, vin, vres, logged, download>>

\* Lines 287-300: every entry of the archive is written, then the zip file
\* is unlinked; a read or write error after k entries raises and leaves the
\* zip file.
Extract(p) ==
    /\ pc[p] = "extract"
    /\ \/ /\ LET r == ExtractEntries(files, dirs, arch, 1, Len(Archive(arch))) IN
                /\ files' = r.files
                /\ dirs' = r.dirs
          /\ zip' = [zip EXCEPT ![p] = FALSE]
          /\ pc' = [pc EXCEPT ![p] = "validate"]
          /\ UNCHANGED <<exit, failedAt>>
       \/ /\ \E k \in 0..(Len(Archive(arch)) - 1) :
                LET r == ExtractEntries(files, dirs, arch, 1, k) IN
                   /\ files' = r.files
                   /\ dirs' = r.dirs
          /\ Raise(p, "extract")
          /\ UNCHANGED zip
    /\ UNCHANGED <<lock, faults, runs, arch, killedAt, liveAtStart, newTree, vin, vres, logged, download>>

\* Lines 302-312 with validate_playlist: the first playlist of the staging
\* root is rewritten in place; no playlist, or no surviving reference, raises.
Validate(p) ==
    /\ pc[p] = "validate"
    /\ IF StagedPlaylists(files) = {}
          THEN /\ Raise(p, "validate")
               /\ UNCHANGED <<files, newTree, vin, vres>>
          ELSE \E m \in StagedPlaylists(files) :
                  LET res == ValidateLines(files[m].lines, files, dirs) IN
                     /\ vin' = files[m].lines
                     /\ vres' = res
                     /\ IF NoValidFiles(files[m].lines, res)
                           THEN /\ Raise(p, "validate")
                                /\ UNCHANGED <<files, newTree>>
                           ELSE /\ files' = [files EXCEPT ![m].lines = Flatten(res)]
                                /\ newTree' = Tree(files', dirs, STAGING_DIR)
                                /\ pc' = [pc EXCEPT ![p] = "wait"]
                                /\ UNCHANGED <<exit, failedAt>>
    /\ UNCHANGED <<lock, dirs, zip, faults, runs, arch, killedAt, liveAtStart, logged, download>>

\* Lines 314-318: the wait for the player changes nothing on disk.
WaitVlc(p) ==
    /\ pc[p] = "wait"
    /\ pc' = [pc EXCEPT ![p] = "swap_rm"]
    /\ UNCHANGED <<lock, files, dirs, zip, exit, faults, runs, run, download>>

\* Lines 322-323: the live directory is removed when it exists.
SwapRemove(p) ==
    /\ pc[p] = "swap_rm"
    /\ \E r \in Rmtree(files, dirs, MEDIA_DIR, faults < MaxFaults) :
          /\ files' = r.files
          /\ dirs' = r.dirs
          /\ faults' = faults + r.err
    /\ pc' = [pc EXCEPT ![p] = "swap_mv"]
    /\ UNCHANGED <<lock, zip, exit, runs, run, download>>

\* Line 324: the staging directory is renamed to the live path.
SwapRename(p) ==
    /\ pc[p] = "swap_mv"
    /\ IF RenameOk(files, dirs, STAGING_DIR, MEDIA_DIR)
          THEN /\ LET r == RenameDir(files, dirs, STAGING_DIR, MEDIA_DIR) IN
                     /\ files' = r.files
                     /\ dirs' = r.dirs
               /\ pc' = [pc EXCEPT ![p] = "notify"]
               /\ UNCHANGED <<exit, failedAt>>
          ELSE /\ Raise(p, "swap_mv")
               /\ UNCHANGED <<files, dirs>>
    /\ UNCHANGED <<lock, zip, faults, runs, arch, killedAt, liveAtStart, newTree, vin, vres, logged, download>>

\* How a subprocess.run call can go: exit status 0, another exit status,
\* or an exception (command missing, TimeoutExpired).
CmdResults == {"zero", "nonzero", "error"}

\* How the heartbeat request can go.
BeatResults == {"sent", "error"}

\* A call with no try block around it: the exception goes on.
Unguarded(r) == r

\* try: ... except Exception: around a call (lines 77, 88, 130, 339): an
\* exception is turned into a printed warning or a default value.
Guarded(r) == IF r = "error" THEN "caught" ELSE r

\* is_vlc_running(), lines 66-89: systemctl is-active says so, or else
\* pgrep finds the player.
IsVlcRunning(sysctl, pgrep) ==
    IF Guarded(sysctl) = "zero" THEN TRUE ELSE Guarded(pgrep) = "zero"

\* An exception leaves lines 327-340.
NotifyRaises(sysctl, pgrep, restart, beat) ==
    \/ Guarded(sysctl) = "error"
    \/ (Guarded(sysctl) # "zero" /\ Guarded(pgrep) = "error")
    \/ (IsVlcRunning(sysctl, pgrep) /\ Guarded(restart) = "error")
    \/ Guarded(beat) = "error"

\* The failures met on lines 327-340: a detection command that raised, a
\* restart that raised or ended with a status other than 0, a heartbeat
\* that raised.
Failures(sysctl, pgrep, restart, beat) ==
    (IF sysctl = "error" \/ (sysctl # "zero" /\ pgrep = "error") THEN {"detect"} ELSE {})
    \cup (IF IsVlcRunning(sysctl, pgrep) /\ restart # "zero" THEN {"restart"} ELSE {})
    \cup (IF beat = "error" THEN {"heartbeat"} ELSE {})

\* Lines 327-342: the player is restarted when it runs and the heartbeat
\* is sent; the try block of sync() then ends normally.
Notify(p) ==
    /\ pc[p] = "notify"
    /\ \E sysctl, pgrep, restart \in CmdResults : \E beat \in BeatResults :
          /\ logged' = Failures(sysctl, pgrep, restart, beat)
          /\ IF NotifyRaises(sysctl, pgrep, restart, beat)
                THEN Raise(p, "notify")
                ELSE /\ pc' = [pc EXCEPT ![p] = "release"]
                     /\ exit' = [exit EXCEPT ![p] = "ok"]
                     /\ UNCHANGED failedAt
    /\ UNCHANGED <<lock, files, dirs, zip, faults, runs, arch, killedAt, liveAtStart, newTree, vin, vres, download>>

\* A finally clause that leaves the marker.
KeepMarker(lk) == lk

\* Line 350: SYNC_LOCK.unlink(missing_ok=True).
UnlinkMarker(lk) == 0

\* Line 350, in the finally clause.  The record of the run ends with it.
Release(p) ==
    /\ pc[p] = "release"
    /\ lock' = UnlinkMarker(lock)
    /\ pc' = [pc EXCEPT ![p] = "cleanup"]
    /\ arch' = 0
    /\ failedAt' = "none"
    /\ killedAt' = "none"
    /\ liveAtStart' = NoTree
    /\ newTree' = NoTree
    /\ vin' = <<>>
    /\ vres' = <<>>
    /\ logged' = {}
    /\ UNCHANGED <<files, dirs, zip, exit, faults, runs, download>>

\* Lines 352-353, in the finally clause: the staging directory is removed
\* when it exists.  The process then ends with the status exit[p], leaving
\* its zip file if zip[p], and its slot is free for a later invocation.
Cleanup(p) ==
    /\ pc[p] = "cleanup"
    /\ \E r \in Rmtree(files, dirs, STAGING_DIR, faults < MaxFaults) :
          /\ files' = r.files
          /\ dirs' = r.dirs
          /\ faults' = faults + r.err
    /\ pc' = [pc EXCEPT ![p] = "idle"]
    /\ zip' = [zip EXCEPT ![p] = FALSE]
    /\ exit' = [exit EXCEPT ![p] = "none"]
    /\ UNCHANGED <<lock, runs, run, download>>

\* Line 264: the skipped invocation has returned; its slot is free for a
\* later invocation.
Reinvoke(p) ==
    /\ pc[p] = "skipped"
    /\ pc' = [pc EXCEPT ![p] = "idle"]
    /\ UNCHANGED <<lock, files, dirs, zip, exit, faults, runs, run, download>>

\* The process is terminated abruptly (SIGKILL, out of memory): no except
\* or finally clause runs, and what it left on disk stays.  Its slot is free
\* for a later invocation.
Kill(p) ==
    /\ pc[p] \in RunningPcs
    /\ pc' = [pc EXCEPT ![p] = "idle"]
    /\ zip' = [zip EXCEPT ![p] = FALSE]
    /\ exit' = [exit EXCEPT ![p] = "none"]
    /\ IF lock = p
          THEN lock' = -1 /\ killedAt' = pc[p]
          ELSE UNCHANGED <<lock, killedAt>>
    /\ UNCHANGED <<files, dirs, faults, runs, arch, failedAt, liveAtStart, newTree, vin, vres, logged, download>>

Next ==
    \E p \in Procs :
        \/ Acquire(p)
        \/ Prepare(p)
        \/ Fetch(p)
        \/ Extract(p)
        \/ Validate(p)
        \/ WaitVlc(p)
        \/ SwapRemove(p)
        \/ SwapRename(p)
        \/ Notify(p)
        \/ Release(p)
        \/ Cleanup(p)
        \/ Reinvoke(p)
        \/ Kill(p)

Spec == Init /\ [][Next]_vars

(***************************************************************************)
(* The other writers of the media directory: sync() of main.py and         *)
(* DropboxFolderDownloader.download_and_extract() of vlc.py.  Both files   *)
(* lie in the directory of media_sync.py, so their media directory is      *)
(* BASE_DIR/media as well.  Each is run once, next to the sync processes.   *)
(***************************************************************************)
\* The process that runs main.py sync.
MainProc == NProcs + 1

\* The process that runs vlc.py.
VlcProc == NProcs + 2

\* The remote contents these two runs can fetch.
LegacyArchiveIds == {1}

\* main.py lines 191-200: the extraction loop over entries i..k of archive
\* a, writing below root; the skip rules are those of media_sync.py.
RECURSIVE MainExtractEntries(_, _, _, _, _)
MainExtractEntries(fs, root, a, i, k) ==
    IF i > k THEN fs
    ELSE LET e == Archive(a)[i] IN
         IF EntrySkipped(e)
            THEN MainExtractEntries(fs, root, a, i + 1, k)
            ELSE MainExtractEntries((Norm(root, EntryName(e)) :> Data(a, i, e.lines)) @@ fs,
                                    root, a, i + 1, k)

\* main.py lines 204-212: playlist_local.m3u is written from the first
\* playlist at the top of root; every reference becomes the absolute path
\* MEDIA_DIR / name.
MainLocalPlaylist(fs, root) ==
    LET ms == {q \in Under(fs, root) : Len(q) = Len(root) + 1 /\ EndsWithM3u(q[Len(q)])} IN
    IF ms = {} THEN fs
    ELSE LET m == CHOOSE q \in ms : TRUE
             ls == fs[m].lines
         IN  ((root \o <<"playlist_local.m3u">>) :>
                 [src   |-> fs[m].src,
                  lines |-> [j \in 1..Len(ls) |->
                               IF ls[j].k = "ref"
                                  THEN Ref(TRUE, MEDIA_DIR \o <<ls[j].segs[Len(ls[j].segs)]>>)
                                  ELSE ls[j]]])
             @@ fs

\* main.py lines 176-212: TEMP_DIR is removed and created again; then the
\* download raises and the process ends, or the archive is extracted into
\* TEMP_DIR and the local playlist is written.
MainStage ==
    /\ pc[MainProc] = "ready"
    /\ LET r == Without(files, Under(files, TEMP_DIR)) IN
          \/ /\ files' = r
             /\ pc' = [pc EXCEPT ![MainProc] = "ended"]
          \/ \E a \in LegacyArchiveIds :
                /\ files' = MainLocalPlaylist(
                                MainExtractEntries(r, TEMP_DIR, a, 1, Len(Archive(a))), TEMP_DIR)
                /\ pc' = [pc EXCEPT ![MainProc] = "staged"]
    /\ dirs' = dirs \cup {TEMP_DIR}
    /\ UNCHANGED <<lock, zip, exit, faults, runs, run, download>>

\* main.py line 215: shutil.rmtree(MEDIA_DIR, ignore_errors=True).
MainSwapRemove ==
    /\ pc[MainProc] = "staged"
    /\ \E r \in Rmtree(files, dirs, MEDIA_DIR, faults < MaxFaults) :
          /\ files' = r.files
          /\ dirs' = r.dirs
          /\ faults' = faults + r.err
    /\ pc' = [pc EXCEPT ![MainProc] = "removed"]
    /\ UNCHANGED <<lock, zip, exit, runs, run, download>>

\* main.py lines 216-225: TEMP_DIR.rename(MEDIA_DIR); when it raises the
\* process ends with TEMP_DIR left.  The heartbeat changes nothing on disk.
MainSwapRename ==
    /\ pc[MainProc] = "removed"
    /\ IF RenameOk(files, dirs, TEMP_DIR, MEDIA_DIR)
          THEN LET r == RenameDir(files, dirs, TEMP_DIR, MEDIA_DIR) IN
                  /\ files' = r.files
                  /\ dirs' = r.dirs
          ELSE UNCHANGED <<files, dirs>>
    /\ pc' = [pc EXCEPT ![MainProc] = "ended"]
    /\ UNCHANGED <<lock, zip, exit, faults, runs, run, download>>

\* vlc.py lines 124-139: only directories and names whose last segment
\* starts with '.' are skipped.
VlcEntrySkipped(e) ==
    e.dir \/ StartsWithDot(EntryName(e)[Len(EntryName(e))])

\* vlc.py lines 124-148: the extraction loop over entries i..k of archive
\* a, writing below the media directory.
RECURSIVE VlcExtractEntries(_, _, _, _)
VlcExtractEntries(fs, a, i, k) ==
    IF i > k THEN fs
    ELSE LET e == Archive(a)[i] IN
         IF VlcEntrySkipped(e)
            THEN VlcExtractEntries(fs, a, i + 1, k)
            ELSE VlcExtractEntries((Norm(MEDIA_DIR, EntryName(e)) :> Data(a, i, e.lines)) @@ fs,
                                   a, i + 1, k)

\* vlc.py lines 86-167: the media directory is created when missing and
\* the entries of the archive are written into it one by one; an error
\* after k entries (k = 0: the download failed) ends the run.
VlcDownloadAndExtract ==
    /\ pc[VlcProc] = "ready"
    /\ \E a \in LegacyArchiveIds : \E k \in 0..Len(Archive(a)) :
          files' = VlcExtractEntries(files, a, 1, k)
    /\ dirs' = dirs \cup {MEDIA_DIR}
    /\ pc' = [pc EXCEPT ![VlcProc] = "ended"]
    /\ UNCHANGED <<lock, zip, exit, faults, runs, run, download>>

InitRepo ==
    /\ pc = [p \in 1..(NProcs + 2) |-> IF p \in Procs THEN "idle" ELSE "ready"]
    /\ InitSync
    /\ InitNoCall

NextRepo ==
    \/ Next
    \/ MainStage
    \/ MainSwapRemove
    \/ MainSwapRename
    \/ VlcDownloadAndExtract

SpecRepo == InitRepo /\ [][NextRepo]_vars

(***************************************************************************)
(* download_with_retry(), followed attempt by attempt                      *)
(***************************************************************************)
\* How one pass through the try block of lines 144-180 can go:
\*  "url_type"    opener.open raises ValueError "unknown url type"
\*  "transport"   opener.open or response.read raises URLError or a timeout
\*  "http"        opener.open raises HTTPError (a response that is not 2xx)
\*  "oversize"    the data read reaches MAX_ZIP_SIZE (line 164)
\*  "write_fail"  f.write(data) raises OSError (line 169), e.g. disk full
\*  "close_fail"  the flush at the end of the with block raises OSError
\*  "corrupt"     zipfile.ZipFile raises BadZipFile (lines 174-178)
\*  "verify_fail" ZipFile or testzip raises another exception
\*  "ok"          line 180 is reached
Outcomes == {"url_type", "transport", "http", "oversize", "write_fail",
             "close_fail", "corrupt", "verify_fail", "ok"}

\* Line 168 was reached: NamedTemporaryFile(delete=False) has created a file.
Created(c) == c \in {"write_fail", "close_fail", "corrupt", "verify_fail", "ok"}

\* Line 170 was reached: zip_path names the file.
ZipPathSet(c) == c \in {"close_fail", "corrupt", "verify_fail", "ok"}

\* The file was unlinked: by the inner except clause (line 177) or by the
\* outer one when zip_path is set and the file exists (lines 183-184).
Unlinked(c) == c = "corrupt" \/ (c # "ok" /\ ZipPathSet(c))

\* The number of temporary files the pass leaves on disk.
Left(c) == IF Created(c) /\ ~Unlinked(c) THEN 1 ELSE 0

\* An except clause without the test of line 187.
ReraisedNever(c) == FALSE

\* Lines 187-189: the exception is raised again at once.
Reraised(c) == c = "url_type"

\* Line 142: attempt is in range(1, MAX_RETRIES + 1).
InRange(attempt, max) == 1 <= attempt /\ attempt <= max

\* A test that lets the loop go on after the last attempt.
MoreAttemptsToo(attempt, max) == attempt <= max

\* Line 190: another attempt follows the failed one.
MoreAttempts(attempt, max) == attempt < max

\* Line 191: the argument of time.sleep after the failed attempt.
Wait(delay, attempt) == delay * attempt

\* The state of the sync processes, which a download_with_retry() call
\* leaves alone.
syncVars == <<pc, lock, files, dirs, zip, exit, faults, runs, run, entry, waiting, updating, booting>>

\* Lines 137-138: an empty DROPBOX_URL raises before the loop.
FetchCall ==
    /\ ret = "called"
    /\ \E url \in {"empty", "set"} :
          ret' = IF url = "empty" THEN "config_error" ELSE "loop"
    /\ UNCHANGED <<syncVars, MAX_RETRIES, RETRY_DELAY, hist, temps, slept, body, data, written>>

\* Lines 142-195: one iteration of the loop.  The pass ends in the return
\* of line 180 or in the except clause, which raises the exception again,
\* sleeps and goes on to the next iteration, or raises the final error.
FetchAttempt ==
    /\ ret = "loop"
    /\ InRange(Len(hist) + 1, MAX_RETRIES)
    /\ \E c \in Outcomes :
          /\ hist' = Append(hist, c)
          /\ temps' = temps + Left(c)
          /\ ret' = IF c = "ok" THEN "returned"
                    ELSE IF Reraised(c) THEN "url_error"
                    ELSE IF MoreAttempts(Len(hist) + 1, MAX_RETRIES) THEN "loop"
                    ELSE "failed"
          /\ slept' = IF c # "ok" /\ ~Reraised(c) /\ MoreAttempts(Len(hist) + 1, MAX_RETRIES)
                         THEN Append(slept, Wait(RETRY_DELAY, Len(hist) + 1))
                         ELSE slept
    /\ UNCHANGED <<syncVars, MAX_RETRIES, RETRY_DELAY, body, data, written>>

\* Line 142: the range is used up and the function ends without a return
\* statement (it returns None).
FetchExhausted ==
    /\ ret = "loop"
    /\ ~InRange(Len(hist) + 1, MAX_RETRIES)
    /\ ret' = "none"
    /\ UNCHANGED <<syncVars, MAX_RETRIES, RETRY_DELAY, hist, temps, slept, body, data, written>>

\* A call with any configured bound from 0 to MaxConfigured.
InitFetch ==
    /\ pc = [p \in Procs |-> "idle"]
    /\ InitSync
    /\ MAX_RETRIES \in 0..MaxConfigured
    /\ RETRY_DELAY \in 1..MaxDelay
    /\ hist = <<>>
    /\ temps = 0
    /\ ret = "called"
    /\ InitNoRead

NextFetch ==
    \/ FetchCall
    \/ FetchAttempt
    \/ FetchExhausted

SpecFetch == InitFetch /\ [][NextFetch]_vars

(***************************************************************************)
(* The size limit of one download attempt, byte by byte                    *)
(*                                                                         *)
(* Lines 154-170 of one attempt.  ret is "reading" inside the while loop,  *)
(* "sized" between the loop and the test of line 164, and then how the     *)
(* attempt went on: "oversize" (line 165), "read_error" (response.read     *)
(* raised), "write_error" (f.write raised) or "saved" (line 170 reached).  *)
(***************************************************************************)
\* The largest response body that is tried.
MaxBody == MAX_ZIP_SIZE + chunk_size + 1

Min(a, b) == IF a < b THEN a ELSE b

\* A size test that lets a download of exactly the cap through.
TooBigStrict(n) == n > MAX_ZIP_SIZE

\* Line 164: the data read has reached the cap.
TooBig(n) == n >= MAX_ZIP_SIZE

\* Lines 157-162: the loop condition holds and response.read(chunk_size)
\* returns between one and chunk_size bytes, returns b"" at the end of the
\* body (break), or raises.
ReadChunk ==
    /\ ret = "reading"
    /\ data < MAX_ZIP_SIZE
    /\ \/ /\ body > 0
          /\ \E got \in 1..Min(chunk_size, body) :
                /\ data' = data + got
                /\ body' = body - got
          /\ ret' = "reading"
       \/ /\ body = 0
          /\ ret' = "sized"
          /\ UNCHANGED <<body, data>>
       \/ /\ ret' = "read_error"
          /\ UNCHANGED <<body, data>>
    /\ UNCHANGED <<syncVars, MAX_RETRIES, RETRY_DELAY, hist, temps, slept, written>>

\* Line 157: the loop condition fails and the loop ends.
ReadStop ==
    /\ ret = "reading"
    /\ ~(data < MAX_ZIP_SIZE)
    /\ ret' = "sized"
    /\ UNCHANGED <<syncVars, MAX_RETRIES, RETRY_DELAY, hist, temps, slept, body, data, written>>

\* Lines 164-170: the size test, then the write of all the data read; a
\* write that raises leaves a file with part of the data.
SizeTestAndWrite ==
    /\ ret = "sized"
    /\ IF TooBig(data)
          THEN ret' = "oversize" /\ written' = written
          ELSE \/ ret' = "saved" /\ written' = data
               \/ ret' = "write_error" /\ written' \in 0..data
    /\ UNCHANGED <<syncVars, MAX_RETRIES, RETRY_DELAY, hist, temps, slept, body, data>>

\* An attempt whose response has any body from 0 to MaxBody bytes.
InitRead ==
    /\ pc = [p \in Procs |-> "idle"]
    /\ InitSync
    /\ MAX_RETRIES = 1
    /\ RETRY_DELAY = 1
    /\ hist = <<>>
    /\ temps = 0
    /\ slept = <<>>
    /\ ret = "reading"
    /\ body \in 0..MaxBody
    /\ data = 0
    /\ written = -1

NextRead ==
    \/ ReadChunk
    \/ ReadStop
    \/ SizeTestAndWrite

SpecRead == InitRead /\ [][NextRead]_vars

(***************************************************************************)
(* One call of validate_playlist, write by write                           *)
(*                                                                         *)
(* validate_playlist(STAGING_DIR / "playlist.m3u", STAGING_DIR) by process *)
(* 1: pc[1] is "validate" at the call, "v_open" when the lines are         *)
(* computed (line 247), "v_write" once write_text has opened the file,     *)
(* which truncates it, "v_done" at the return, "v_raised" after the raise  *)
(* of line 244 and "v_killed" when the process was terminated.             *)
(***************************************************************************)
\* The playlist the call is given.
PlaylistPath == STAGING_DIR \o <<"playlist.m3u">>

\* The lines a playlist is made of: a directive, a blank line, a reference
\* to a staged file, one to a missing file, an absolute one outside the
\* staging root whose file name is staged.
PlaylistLines ==
    {Comment("#EXTM3U"), Blank, Ref(FALSE, <<"a.mp4">>), Ref(FALSE, <<"missing.mp4">>),
     Ref(TRUE, <<"other", "b.mp4">>)}

\* The playlists of at most MaxLines lines.
Playlists == UNION {[1..n -> PlaylistLines] : n \in 0..MaxLines}

\* The staging directory after the extraction, with the playlist pl.
StagedWith(pl) ==
    (STAGING_DIR \o <<"a.mp4">>) :> Data(0, 1, <<>>)
    @@ (STAGING_DIR \o <<"b.mp4">>) :> Data(0, 2, <<>>)
    @@ PlaylistPath :> Data(0, 3, pl)

\* Lines 207-244: the lines are read and checked; no surviving reference
\* raises before anything is written.
ValidateRead ==
    /\ pc[1] = "validate"
    /\ LET res == ValidateLines(files[PlaylistPath].lines, files, dirs) IN
          /\ vin' = files[PlaylistPath].lines
          /\ vres' = res
          /\ IF NoValidFiles(files[PlaylistPath].lines, res)
                THEN pc' = [pc EXCEPT ![1] = "v_raised"] /\ failedAt' = "validate"
                ELSE pc' = [pc EXCEPT ![1] = "v_open"] /\ failedAt' = failedAt
    /\ UNCHANGED <<lock, files, dirs, zip, exit, faults, runs, arch, killedAt, liveAtStart,
                   newTree, logged, download>>

\* Line 248, write_text: open(mode="w") truncates the playlist itself.
ValidateOpen ==
    /\ pc[1] = "v_open"
    /\ files' = [files EXCEPT ![PlaylistPath].lines = <<>>]
    /\ pc' = [pc EXCEPT ![1] = "v_write"]
    /\ UNCHANGED <<lock, dirs, zip, exit, faults, runs, run, download>>

\* Line 248, write_text: the joined lines reach the file one after the
\* other; after the last one the file is closed and the call returns.
ValidateWrite ==
    /\ pc[1] = "v_write"
    /\ LET out == Flatten(vres)
           n   == Len(files[PlaylistPath].lines)
       IN  IF n < Len(out)
              THEN /\ files' = [files EXCEPT ![PlaylistPath].lines = Append(@, out[n + 1])]
                   /\ UNCHANGED <<pc, newTree>>
              ELSE /\ pc' = [pc EXCEPT ![1] = "v_done"]
                   /\ newTree' = Tree(files, dirs, STAGING_DIR)
                   /\ UNCHANGED files
    /\ UNCHANGED <<lock, dirs, zip, exit, faults, runs, arch, failedAt, killedAt, liveAtStart,
                   vin, vres, logged, download>>

\* The process is terminated (SIGKILL, power loss) between the check of
\* the lines and the return: what is on disk stays.
ValidateKilled ==
    /\ pc[1] \in {"v_open", "v_write"}
    /\ killedAt' = pc[1]
    /\ pc' = [pc EXCEPT ![1] = "v_killed"]
    /\ UNCHANGED <<lock, files, dirs, zip, exit, faults, runs, arch, failedAt, liveAtStart,
                   newTree, vin, vres, logged, download>>

\* A call on any playlist of at most MaxLines lines.
InitValidate ==
    /\ pc = [p \in Procs |-> IF p = 1 THEN "validate" ELSE "idle"]
    /\ \E pl \in Playlists : files = StagedWith(pl)
    /\ dirs = {STAGING_DIR}
    /\ arch = 0
    /\ InitIdle
    /\ InitNoCall

NextValidate ==
    \/ ValidateRead
    \/ ValidateOpen
    \/ ValidateWrite
    \/ ValidateKilled

SpecValidate == InitValidate /\ [][NextValidate]_vars

(***************************************************************************)
(* One pass of the extraction loop on any entry                            *)
(***************************************************************************)
\* The path segments entries are made of.
ProbeSegs == {"F", "sub", "a.mp4", ".hidden", ".."}

\* The entries of at most MaxSegs segments, files and directories.
ProbeEntries ==
    {[segs |-> sg, dir |-> d, lines |-> <<>>] :
        sg \in UNION {[1..n -> ProbeSegs] : n \in 1..MaxSegs}, d \in BOOLEAN}

\* Lines 289-297: the loop body for the entry, on an empty staging root.
ExtractOne ==
    /\ pc[1] = "extract"
    /\ IF EntrySkipped(entry)
          THEN UNCHANGED <<files, dirs>>
          ELSE /\ files' = (EntryDest(entry) :> Data(0, 1, entry.lines)) @@ files
               /\ dirs' = dirs \cup MadeDirs(EntryDest(entry))
    /\ pc' = [pc EXCEPT ![1] = "x_done"]
    /\ UNCHANGED <<lock, zip, exit, faults, runs, run, MAX_RETRIES, hist, temps, ret, RETRY_DELAY,
                   slept, body, data, written, entry, waiting, updating, booting>>

\* Any entry, the staging root just created by line 282.
InitExtract ==
    /\ pc = [p \in Procs |-> IF p = 1 THEN "extract" ELSE "idle"]
    /\ entry \in ProbeEntries
    /\ files = <<>>
    /\ dirs = {STAGING_DIR}
    /\ arch = 0
    /\ InitNoUpdate
    /\ InitNoBoot
    /\ InitQuiet
    /\ InitNoCall

NextExtract == ExtractOne

SpecExtract == InitExtract /\ [][NextExtract]_vars

(***************************************************************************)
(* The wait for the player before the swap, pass by pass                   *)
(*                                                                         *)
(* Lines 314-318 with wait_for_vlc_release by process 1: pc[1] is "wait"   *)
(* at line 315, "w_loop" at the loop test of line 96, "w_true" and         *)
(* "w_false" at the two returns, "swap_rm" at line 320.                    *)
(***************************************************************************)
\* The passes after which the model stops a loop that does not end.
MaxPolls == WAIT_TIMEOUT + 2

\* A loop test that never fails.
TimeLeftAlways(e, t) == TRUE

\* Line 96: time.time() - start < timeout.
TimeLeft(e, t) == e < t

\* Line 315: with no player running the wait is skipped.
WaitCheck ==
    /\ pc[1] = "wait"
    /\ \E sysctl \in CmdResults, pgrep \in CmdResults :
          pc' = [pc EXCEPT ![1] = IF IsVlcRunning(sysctl, pgrep) THEN "w_loop" ELSE "swap_rm"]
    /\ UNCHANGED <<lock, files, dirs, zip, exit, faults, runs, run, download>>

\* Lines 96-111: one pass of the loop.  It returns True when the player is
\* not running or lsof ends with a status other than 0; otherwise it
\* sleeps, and the pass has taken d seconds.
WaitPoll ==
    /\ pc[1] = "w_loop"
    /\ TimeLeft(elapsed, WAIT_TIMEOUT)
    /\ polls < MaxPolls
    /\ \E sysctl \in CmdResults, pgrep \in CmdResults, lsof \in CmdResults, d \in 1..MaxPollSecs :
          /\ seen' = [running |-> IsVlcRunning(sysctl, pgrep), lsof |-> Guarded(lsof)]
          /\ polls' = polls + 1
          /\ IF ~IsVlcRunning(sysctl, pgrep) \/ Guarded(lsof) = "nonzero"
                THEN /\ pc' = [pc EXCEPT ![1] = "w_true"]
                     /\ elapsed' = elapsed
                ELSE /\ pc' = pc
                     /\ elapsed' = elapsed + d
    /\ UNCHANGED <<lock, files, dirs, zip, exit, faults, runs, run, MAX_RETRIES, hist, temps, ret,
                   RETRY_DELAY, slept, body, data, written, entry, updating, booting>>

\* Lines 96 and 112: the timeout has elapsed, the call returns False.
WaitTimeout ==
    /\ pc[1] = "w_loop"
    /\ ~TimeLeft(elapsed, WAIT_TIMEOUT)
    /\ pc' = [pc EXCEPT ![1] = "w_false"]
    /\ UNCHANGED <<lock, files, dirs, zip, exit, faults, runs, run, download>>

\* Lines 316-320: after either return, with a warning after False, sync
\* goes on to the swap.
WaitReturn ==
    /\ pc[1] \in {"w_true", "w_false"}
    /\ pc' = [pc EXCEPT ![1] = "swap_rm"]
    /\ UNCHANGED <<lock, files, dirs, zip, exit, faults, runs, run, download>>

InitWait ==
    /\ pc = [p \in Procs |-> IF p = 1 THEN "wait" ELSE "idle"]
    /\ InitSync
    /\ InitNoCall

NextWait ==
    \/ WaitCheck
    \/ WaitPoll
    \/ WaitTimeout
    \/ WaitReturn

SpecWait == InitWait /\ [][NextWait]_vars

\* The process is scheduled: a step of the wait that can be taken is taken.
SpecWaitFair == SpecWait /\ WF_vars(NextWait)

(***************************************************************************)
(* code_update.update()                                                    *)
(*                                                                         *)
(* pc[p] is "idle" before the call, "u_check" after the marker was         *)
(* created, "u_files" in the download loop, "u_finish" after it,           *)
(* "u_release" at the finally clause, "u_done" after it, and "u_skipped"   *)
(* after the return of line 84.                                            *)
(***************************************************************************)
\* The steps between the creation of the marker and its removal.
UpdateLockedPcs == {"u_check", "u_files", "u_finish", "u_release"}

\* A touch that does not test for the marker.
UpdateTouchAlways(lk) == TRUE

\* Line 81: lock_file.touch(exist_ok=False) succeeds when the marker is absent.
UpdateTouch(lk) == lk = 0

\* What get_version_from_file can return for main.py in state st: the
\* version of the content, "unknown" when the file cannot be read, either
\* for a file written part way.
LocalVersions(st) ==
    CASE st = "old"     -> {oldVer}
      [] st = "new"     -> {remoteVer}
      [] st = "partial" -> {remoteVer, Unknown}
      [] OTHER          -> {Unknown}

\* The state of a file after a pass of the loop that ended with o.
AfterPass(o, prev) ==
    IF o = "ok" THEN "new" ELSE IF o = "write_fail" THEN "partial" ELSE prev

\* Lines 80-84: create the marker or return at once.
UpdAcquire(p) ==
    /\ pc[p] = "idle"
    /\ IF UpdateTouch(ulock)
          THEN /\ ulock' = p
               /\ pc' = [pc EXCEPT ![p] = "u_check"]
               /\ step' = 0
               /\ outcome' = NoneGot
          ELSE /\ pc' = [pc EXCEPT ![p] = "u_skipped"]
               /\ UNCHANGED <<ulock, step, outcome>>
    /\ UNCHANGED <<lock, files, dirs, zip, exit, faults, runs, run, MAX_RETRIES, hist, temps, ret,
                   RETRY_DELAY, slept, body, data, written, entry, waiting, booting,
                   local, oldVer, remoteVer, restarts>>

\* Lines 91-128: the two versions are read and compared.  The function
\* returns when the request fails or the local version is not below the
\* remote one; mkdir can raise.
UpdCheck(p) ==
    /\ pc[p] = "u_check"
    /\ \E cur \in LocalVersions(local[1]), fetch \in {"fail", "ok"}, mkdir \in {"ok", "raise"} :
          IF fetch = "fail" \/ compare_versions(cur, remoteVer) >= 0
             THEN /\ pc' = [pc EXCEPT ![p] = "u_release"]
                  /\ exit' = [exit EXCEPT ![p] = "ok"]
                  /\ step' = step
             ELSE IF mkdir = "raise"
                     THEN /\ pc' = [pc EXCEPT ![p] = "u_release"]
                          /\ exit' = [exit EXCEPT ![p] = "fail"]
                          /\ step' = step
                     ELSE /\ pc' = [pc EXCEPT ![p] = "u_files"]
                          /\ exit' = exit
                          /\ step' = 1
    /\ UNCHANGED <<lock, files, dirs, zip, faults, runs, run, MAX_RETRIES, hist, temps, ret,
                   RETRY_DELAY, slept, body, data, written, entry, waiting, booting,
                   ulock, local, oldVer, remoteVer, outcome, restarts>>

\* Lines 150-189: one pass of the loop; every exception of the pass is
\* caught and the loop goes on.
UpdFile(p) ==
    /\ pc[p] = "u_files"
    /\ \E o \in FileOutcomes(files_to_download[step]) :
          /\ outcome' = [outcome EXCEPT ![step] = o]
          /\ local' = [local EXCEPT ![step] = AfterPass(o, @)]
    /\ step' = step + 1
    /\ pc' = [pc EXCEPT ![p] = IF step = Len(files_to_download) THEN "u_finish" ELSE "u_files"]
    /\ UNCHANGED <<lock, files, dirs, zip, exit, faults, runs, run, MAX_RETRIES, hist, temps, ret,
                   RETRY_DELAY, slept, body, data, written, entry, waiting, booting,
                   ulock, oldVer, remoteVer, restarts>>

\* Lines 192-226: chmod raises for a file that does not exist; otherwise
\* the unit files are set up (errors caught) and the restart command is
\* run, whose status is only printed and whose timeout raises.
UpdFinish(p) ==
    /\ pc[p] = "u_finish"
    /\ IF \E i \in 1..Len(files_to_download) :
             files_to_download[i] \in Chmodded /\ local[i] = "absent"
          THEN /\ exit' = [exit EXCEPT ![p] = "fail"]
               /\ restarts' = restarts
          ELSE \E restart \in CmdResults :
                  /\ exit' = [exit EXCEPT ![p] = IF restart = "error" THEN "fail" ELSE "ok"]
                  /\ restarts' = restarts + 1
    /\ pc' = [pc EXCEPT ![p] = "u_release"]
    /\ UNCHANGED <<lock, files, dirs, zip, faults, runs, run, MAX_RETRIES, hist, temps, ret,
                   RETRY_DELAY, slept, body, data, written, entry, waiting, booting,
                   ulock, local, oldVer, remoteVer, step, outcome>>

\* Line 229: lock_file.unlink(missing_ok=True).
UpdateUnlink(lk) == 0

\* Lines 228-229: the finally clause.
UpdRelease(p) ==
    /\ pc[p] = "u_release"
    /\ ulock' = UpdateUnlink(ulock)
    /\ pc' = [pc EXCEPT ![p] = "u_done"]
    /\ UNCHANGED <<lock, files, dirs, zip, exit, faults, runs, run, MAX_RETRIES, hist, temps, ret,
                   RETRY_DELAY, slept, body, data, written, entry, waiting, booting,
                   local, oldVer, remoteVer, step, outcome, restarts>>

\* Any local and remote version; the script present or not.
InitUpdate ==
    /\ pc = [p \in Procs |-> "idle"]
    /\ files = OldLiveFiles
    /\ dirs = {MEDIA_DIR}
    /\ arch = 0
    /\ entry = NoEntry
    /\ InitNoBoot
    /\ InitQuiet
    /\ InitNoCall
    /\ ulock = 0
    /\ \E script \in {"old", "absent"} :
          local = [i \in 1..Len(files_to_download) |->
                      IF files_to_download[i] = "bootstrap.sh" THEN script ELSE "old"]
    /\ oldVer \in Versions
    /\ remoteVer \in Versions
    /\ step = 0
    /\ outcome = NoneGot
    /\ restarts = 0

NextUpdate ==
    \E p \in Procs :
        \/ UpdAcquire(p)
        \/ UpdCheck(p)
        \/ UpdFile(p)
        \/ UpdFinish(p)
        \/ UpdRelease(p)

SpecUpdate == InitUpdate /\ [][NextUpdate]_vars

(***************************************************************************)
(* bootloader.py: Bootloader.run                                           *)
(*                                                                         *)
(* Process 1 runs the bootloader again and again on one device: it waits   *)
(* for the network, asks GitHub for the head of the branch, installs it    *)
(* through git or through the archive, installs the dependencies and       *)
(* starts the player.  exit[1] is "ok" for a return of 0 and "fail" for    *)
(* any other; a run ends at "b_done" when run() returned from its try      *)
(* block and at "b_caught" when the handler of line 415 returned.          *)
(***************************************************************************)
\* Everything a run of the bootloader leaves alone.
besidesBoot == <<lock, files, dirs, zip, faults, run, entry, waiting, updating, MAX_RETRIES,
                 hist, temps, ret, RETRY_DELAY, slept, body, data, written>>

DiffersAlways(loc, remote) == TRUE

\* Line 170: the test that makes check_for_updates report an update.
Differs(loc, remote) == loc = "none" \/ loc # remote

\* Lines 156-174: (False, None) without a remote version, else the remote
\* version with the result of the test.
check_for_updates(loc, remote) ==
    IF remote = "none"
       THEN [avail |-> FALSE, ver |-> "none", local |-> loc, remote |-> remote]
       ELSE [avail |-> Differs(loc, remote), ver |-> remote, local |-> loc, remote |-> remote]

\* Lines 125-143: the version file when it exists, else the HEAD of the
\* checkout, else None.
get_local_version ==
    IF recorded # "none" THEN recorded
    ELSE IF env.git /\ app \in Shas THEN app
    ELSE "none"

\* Line 383: a run starts.
BootStart ==
    /\ pc[1] \in {"idle", "b_done", "b_caught"}
    /\ runs < MaxRuns
    /\ runs' = runs + 1
    /\ pc' = [pc EXCEPT ![1] = "b_net"]
    /\ exit' = [exit EXCEPT ![1] = "none"]
    /\ launches' = 0
    /\ offer' = NoOffer
    /\ UNCHANGED <<env, remoteSha, recorded, app, installRes, besidesBoot>>

\* Lines 385-390: without network the player is started at once.
BootNetwork ==
    /\ pc[1] = "b_net"
    /\ \E up \in BOOLEAN :
          pc' = [pc EXCEPT ![1] = IF up THEN "b_check" ELSE "b_run"]
    /\ UNCHANGED <<exit, runs, booting, besidesBoot>>

\* Lines 393-395: check_for_updates; the request can fail, which gives no
\* remote version, and reading the local version can raise, which the
\* handler of line 415 catches.
BootCheck ==
    /\ pc[1] = "b_check"
    /\ \E remote \in {"none", remoteSha}, raised \in BOOLEAN :
          IF raised
             THEN /\ pc' = [pc EXCEPT ![1] = "b_caught"]
                  /\ exit' = [exit EXCEPT ![1] = "fail"]
                  /\ offer' = offer
             ELSE /\ offer' = check_for_updates(get_local_version, remote)
                  /\ pc' = [pc EXCEPT ![1] =
                               IF offer'.avail /\ offer'.ver # "none" THEN "b_install" ELSE "b_after"]
                  /\ exit' = exit
    /\ UNCHANGED <<runs, env, remoteSha, recorded, app, installRes, launches, besidesBoot>>

\* Lines 176-281 and 399-406: download_and_install_update.  The git path
\* fetches and resets, the archive path downloads, extracts and copies the
\* items one by one; either writes the version file as its last step and
\* returns True, and returns False when a step before that failed.
BootInstall ==
    /\ pc[1] = "b_install"
    /\ \E o \in IF env.git THEN {"ok", "fail"} ELSE {"ok", "fail", "partial"} :
          /\ app' = CASE o = "ok" -> offer.ver
                      [] o = "fail" -> app
                      [] o = "partial" -> "mixed"
          /\ recorded' = IF o = "ok" THEN offer.ver ELSE recorded
          /\ installRes' = IF o = "ok" THEN "ok" ELSE "failed"
          /\ pc' = [pc EXCEPT ![1] = IF o = "ok" THEN "b_deps" ELSE "b_after"]
    /\ UNCHANGED <<exit, runs, env, remoteSha, offer, launches, besidesBoot>>

\* Lines 290-328 and 403: install_dependencies, whose result is not used.
BootDeps ==
    /\ pc[1] = "b_deps"
    /\ pc' = [pc EXCEPT ![1] = "b_after"]
    /\ UNCHANGED <<exit, runs, booting, besidesBoot>>

\* Lines 409-413: the player is started when run_vlc_after_update is set,
\* else the run returns 0.
BootAfter ==
    /\ pc[1] = "b_after"
    /\ IF env.flag
          THEN /\ pc' = [pc EXCEPT ![1] = "b_run"]
               /\ exit' = exit
          ELSE /\ pc' = [pc EXCEPT ![1] = "b_done"]
               /\ exit' = [exit EXCEPT ![1] = "ok"]
    /\ UNCHANGED <<runs, booting, besidesBoot>>

\* Lines 424-442 and 337-359: _run_vlc.  VLCRunner.run raises
\* FileNotFoundError when vlc.py is missing, and Popen raises it when the
\* command is not installed; _run_vlc catches it and returns 1.
BootRunVlc ==
    /\ pc[1] = "b_run"
    /\ IF env.player
          THEN /\ launches' = launches + 1
               /\ pc' = [pc EXCEPT ![1] = "b_vlc"]
               /\ exit' = exit
          ELSE /\ launches' = launches
               /\ pc' = [pc EXCEPT ![1] = "b_done"]
               /\ exit' = [exit EXCEPT ![1] = "fail"]
    /\ UNCHANGED <<runs, env, remoteSha, recorded, app, offer, installRes, besidesBoot>>

\* Lines 429-438: the player ends and its return code is returned.
BootVlcExit ==
    /\ pc[1] = "b_vlc"
    /\ pc' = [pc EXCEPT ![1] = "b_done"]
    /\ \E code \in {"ok", "fail"} : exit' = [exit EXCEPT ![1] = code]
    /\ UNCHANGED <<runs, booting, besidesBoot>>

\* The device: a git checkout or an unpacked archive, with or without a
\* version file, the player startable or not, either value of the flag.
InitBoot ==
    /\ pc = [p \in Procs |-> "idle"]
    /\ files = OldLiveFiles
    /\ dirs = {MEDIA_DIR}
    /\ arch = 0
    /\ entry = NoEntry
    /\ InitNoUpdate
    /\ InitQuiet
    /\ InitNoCall
    /\ env \in [git : BOOLEAN, player : BOOLEAN, flag : BOOLEAN]
    /\ remoteSha \in Shas
    /\ recorded \in {"none"} \cup Shas
    /\ app \in Shas
    /\ offer = NoOffer
    /\ installRes = "none"
    /\ launches = 0

NextBoot ==
    \/ BootStart
    \/ BootNetwork
    \/ BootCheck
    \/ BootInstall
    \/ BootDeps
    \/ BootAfter
    \/ BootRunVlc
    \/ BootVlcExit

SpecBoot == InitBoot /\ [][NextBoot]_vars

(***************************************************************************)
(* Consecutive runs of sync() on the same remote content                   *)
(*                                                                         *)
(* One process runs sync() again and again, each run from the touch of     *)
(* line 261 to the end of the finally clause with no other process in      *)
(* between, and the remote content arch stays the same.  runs counts the   *)
(* runs that ended with success; a run that fails is the last one.         *)
(***************************************************************************)
\* Files an earlier run, ended by a crash, can have left in the staging
\* directory.
StaleStaging ==
    (STAGING_DIR \o <<"stale.mp4">>) :> Data(0, 3, <<>>)
    @@ (STAGING_DIR \o <<"missing.mp4">>) :> Data(0, 4, <<>>)

\* The function fs restricted to the paths in keep.
Restrict(fs, keep) == [q \in keep |-> fs[q]]

\* The disks a first run can find: the live directory absent or holding
\* all or part of an earlier result, the staging directory absent or
\* holding files left by a crash.
InitDisks ==
    {[files |-> Restrict(OldLiveFiles, lv) @@ Restrict(StaleStaging, st),
      dirs  |-> (IF lv = {} /\ ~hasLive THEN {} ELSE {MEDIA_DIR})
                \cup (IF st = {} THEN {} ELSE {STAGING_DIR})] :
        lv \in SUBSET DOMAIN OldLiveFiles,
        st \in SUBSET DOMAIN StaleStaging,
        hasLive \in BOOLEAN}

\* Lines 257-353 as one step.  r1 is the removal of line 281, e the disk
\* after the extraction, m the playlist tried, r2 the removal of line 323,
\* s the disk after the rename or after the exception, r3 the removal of
\* line 353.  fetched = FALSE: download_with_retry raised.
SyncRun ==
    /\ runs < MaxRuns
    /\ failedAt = "none"
    /\ \E fetched \in BOOLEAN :
       \E r1 \in Rmtree(files, dirs, STAGING_DIR, faults < MaxFaults) :
          LET e  == IF fetched
                       THEN ExtractEntries(r1.files, r1.dirs \cup {STAGING_DIR}, arch, 1, Len(Archive(arch)))
                       ELSE [files |-> r1.files, dirs |-> r1.dirs \cup {STAGING_DIR}]
              ms == IF fetched THEN StagedPlaylists(e.files) ELSE {}
          IN  \E m \in (IF ms = {} THEN {<<>>} ELSE ms) :
                 LET res     == IF ms = {} THEN <<>> ELSE ValidateLines(e.files[m].lines, e.files, e.dirs)
                     invalid == ms = {} \/ NoValidFiles(e.files[m].lines, res)
                     v       == IF invalid THEN e.files ELSE [e.files EXCEPT ![m].lines = Flatten(res)]
                 IN  \E r2 \in (IF invalid
                                   THEN {[files |-> v, dirs |-> e.dirs, err |-> 0]}
                                   ELSE Rmtree(v, e.dirs, MEDIA_DIR, faults + r1.err < MaxFaults)) :
                        LET ok == ~invalid /\ RenameOk(r2.files, r2.dirs, STAGING_DIR, MEDIA_DIR)
                            s  == IF ok THEN RenameDir(r2.files, r2.dirs, STAGING_DIR, MEDIA_DIR)
                                        ELSE [files |-> r2.files, dirs |-> r2.dirs]
                        IN  \E r3 \in Rmtree(s.files, s.dirs, STAGING_DIR,
                                              faults + r1.err + r2.err < MaxFaults) :
                               /\ files' = r3.files
                               /\ dirs' = r3.dirs
                               /\ faults' = faults + r1.err + r2.err + r3.err
                               /\ runs' = IF ok THEN runs + 1 ELSE runs
                               /\ failedAt' = IF ok THEN "none"
                                              ELSE IF ~fetched THEN "fetch"
                                              ELSE IF invalid THEN "validate"
                                              ELSE "swap_mv"
    /\ liveAtStart' = LiveTree
    /\ UNCHANGED <<pc, lock, zip, exit, arch, killedAt, newTree, vin, vres, logged, download>>

\* The remote contents of repeated runs: also a folder with two playlists.
IdemArchiveIds == ArchiveIds \cup {4}

\* Any remote content and any of the disks a first run can find.
InitIdem ==
    /\ pc = [p \in Procs |-> "idle"]
    /\ arch \in IdemArchiveIds
    /\ \E d \in InitDisks : files = d.files /\ dirs = d.dirs
    /\ InitIdle
    /\ InitNoCall

NextIdem == SyncRun

SpecIdem == InitIdem /\ [][NextIdem]_vars

(***************************************************************************)
(* Properties                                                              *)
(***************************************************************************)
\* The processes between lock acquisition and lock release.
Holders == {p \in Procs : pc[p] \in LockedPcs}

\* The marker exists and the process that created it was killed.
OrphanLock == lock = -1

\* Archive a has an entry that the extraction loop writes outside the
\* staging root.
Escaping(a) ==
    \E i \in 1..Len(Archive(a)) :
        /\ ~EntrySkipped(Archive(a)[i])
        /\ ~IsDescendant(EntryDest(Archive(a)[i]), STAGING_DIR)

\* The run that holds the lock has fetched no archive with such an entry.
BenignRun == arch = 0 \/ ~Escaping(arch)

\* The steps of a run before the rename of the swap has completed.
PreRenamePcs == {"prepare", "fetch", "extract", "validate", "wait", "swap_rm", "swap_mv"}

\* The steps of a run before the swap starts.
PreSwapPcs == {"prepare", "fetch", "extract", "validate"}

\* The path a reference line points to: resolved against the staging root
\* when relative.
ResolvedRef(line) ==
    IF line.abs THEN Norm(<<>>, line.segs) ELSE Norm(STAGING_DIR, line.segs)

\* C1: at most one sync process is between lock acquisition and lock
\* release at any time, and a process that finds the marker present is
\* skipped without touching the marker, the filesystem or a zip file.
C1_MutualExclusion ==
    /\ [](Cardinality(Holders) <= 1)
    /\ [][\A p \in Procs :
             (pc[p] = "idle" /\ lock # 0 /\ pc'[p] # "idle")
                => (pc'[p] = "skipped" /\ UNCHANGED <<lock, files, dirs, zip>>)]_vars

\* One process is past the fetch under the lock while another was skipped.
C1_Witness ==
    \E p, q \in Procs :
        lock = p /\ pc[p] \in {"extract", "validate", "swap_rm", "swap_mv"} /\ pc[q] = "skipped"

\* C2: in every state of a sync run the live directory is the complete
\* pre-sync tree or the complete newly validated tree.  Stated for runs
\* whose archive has no escaping entry, so that a violation is the swap's
\* own.
C2_LiveAlwaysComplete ==
    \A p \in Procs :
        (pc[p] \in LockedPcs /\ lock = p /\ BenignRun)
           => \/ LiveTree = liveAtStart
              \/ (newTree # NoTree /\ LiveTree = newTree)

\* C3: a run killed before the rename of the swap has completed leaves the
\* live directory as it was when the run started.  Stated for runs whose
\* archive has no escaping entry.
C3_AtomicUnderCrash ==
    (OrphanLock /\ killedAt \in PreRenamePcs /\ BenignRun)
       => LiveTree = liveAtStart

\* C4: an invocation that finds a marker whose creator is dead replaces the
\* marker by its own and runs.
C4_StaleLockRecovery ==
    [][\A p \in Procs :
          (pc[p] = "idle" /\ OrphanLock /\ pc'[p] # "idle")
             => (lock' = p /\ pc'[p] = "prepare")]_vars

\* C5: the system never reaches a state from which every later invocation
\* is skipped.  A marker whose creator was killed is such a state: only the
\* finally clause of the creator removes the marker (OrphanLockStays).
C5_NeverStuck == ~OrphanLock

\* Once the creator of the marker is dead the marker stays for ever.
OrphanLockStays == [][OrphanLock => OrphanLock']_vars

\* C6: a run that took the lock and ended without being killed has removed
\* the marker: once past the finally clause's unlink, the marker is not
\* the one this run created.
C6_LockReleased ==
    \A p \in Procs : pc[p] = "cleanup" => lock # p

\* Two runs are past the unlink, one that failed and one that completed.
C6_Witness ==
    \E p, q \in Procs :
        pc[p] = "cleanup" /\ exit[p] = "fail" /\ pc[q] = "cleanup" /\ exit[q] = "ok"

\* C7: a run that fails before the swap starts leaves the live directory
\* as it was when the run started.
C7_FailureLeavesLive ==
    \A p \in Procs :
        (pc[p] = "release" /\ lock = p /\ failedAt \in PreSwapPcs)
           => LiveTree = liveAtStart

\* Support for the C7 finding: with no escaping entry in the archive a run that
\* fails before the swap starts does leave the live directory untouched.
BenignFailureLeavesLive ==
    \A p \in Procs :
        (pc[p] = "release" /\ lock = p /\ failedAt \in PreSwapPcs /\ BenignRun)
           => LiveTree = liveAtStart

\* C8: a run that fails at any step, the swap included, ends with the live
\* directory equal to the pre-sync tree.  Stated for runs whose archive has
\* no escaping entry.
C8_FailureRestoresLive ==
    \A p \in Procs :
        (pc[p] = "release" /\ lock = p /\ failedAt # "none" /\ BenignRun)
           => LiveTree = liveAtStart

\* C9: extraction writes a file only where its resolved destination is a
\* descendant of the staging root: no file on disk comes from an archive
\* entry whose destination is outside the staging root.
C9_ArchivePathSafety ==
    \A q \in DOMAIN files :
        files[q].src[1] # 0
           => IsDescendant(EntryDest(Archive(files[q].src[1])[files[q].src[2]]), STAGING_DIR)

\* C10: every reference line whose resolved path is not a descendant of the
\* staging root contributes no line to the rewritten playlist.
C10_PlaylistPathSafety ==
    \A i \in 1..Len(vres) :
        (vin[i].k = "ref" /\ ~IsDescendant(ResolvedRef(vin[i]), STAGING_DIR))
           => vres[i] = <<>>

\* The reference lines that survived the validation recorded in vin, vres.
Survivors == {i \in 1..Len(vres) : vin[i].k = "ref" /\ vres[i] # <<>>}

\* C11: after a successful validation every media entry of the written
\* playlist, read relative to the staging root, names a file of the
\* validated staging tree.
C11_EntriesExist ==
    (newTree # NoTree)
       => \A i \in Survivors : vres[i][1].segs \in DOMAIN newTree.files

\* C12: every media entry written by validation is a relative path that
\* does not contain the location of the staging root, whether the input
\* line was absolute or relative; the playlist file of the validated tree
\* holds no absolute line.
C12_EntriesRelative ==
    /\ \A i \in Survivors :
          ~vres[i][1].abs /\ ~IsPrefix(STAGING_DIR, vres[i][1].segs)
    /\ (newTree # NoTree)
          => \A r \in DOMAIN newTree.files :
                \A j \in 1..Len(newTree.files[r].lines) :
                    newTree.files[r].lines[j].k = "ref" => ~newTree.files[r].lines[j].abs

\* A validation succeeded in which an absolute line inside the staging
\* root, an absolute line outside it and a relative line survived.
C12_Witness ==
    /\ newTree # NoTree
    /\ \E i, j, k \in Survivors :
          /\ vin[i].abs /\ IsDescendant(ResolvedRef(vin[i]), STAGING_DIR)
          /\ vin[j].abs /\ ~IsDescendant(ResolvedRef(vin[j]), STAGING_DIR)
          /\ ~vin[k].abs

\* The steps of a run after its validation has succeeded.
PostValidatePcs == {"wait", "swap_rm", "swap_mv", "notify"}

\* The media entries of the playlists at the top of the live directory.
LiveEntries ==
    {<<r, j>> \in (DOMAIN LiveTree.files) \X (1..8) :
        /\ Len(r) = 1 /\ EndsWithM3u(r[1])
        /\ j <= Len(LiveTree.files[r].lines)
        /\ LiveTree.files[r].lines[j].k = "ref"}

\* The validation part of C13: a run is past validation only when a media
\* entry survived, and a run whose validation raised is on its way out with
\* the failure status, never in the swap.
ValidationGate ==
    \A p \in Procs :
        /\ (lock = p /\ pc[p] \in PostValidatePcs) => Survivors # {}
        /\ (lock = p /\ failedAt = "validate") => (pc[p] = "release" /\ exit[p] = "fail")

\* C13: a validation with no surviving entry fails the run before the swap,
\* and a run whose swap has completed has published a playlist with at
\* least one media entry.
C13_EmptyPlaylistFails ==
    /\ ValidationGate
    /\ \A p \in Procs : (lock = p /\ pc[p] = "notify") => LiveEntries # {}

\* The steps of a run between the creation of its staging directory and
\* the rename of the swap.
StagedPcs == {"fetch", "extract", "validate", "wait", "swap_rm", "swap_mv"}

\* C15: the staging directory belongs to the run that holds the lock: the
\* clean-up of a run that has ended leaves the staging tree of the run
\* that holds the lock as it is.
C15_StagingOwned ==
    [][\A p, q \in Procs :
          (pc[p] = "cleanup" /\ pc'[p] = "idle" /\ lock = q /\ pc[q] \in StagedPcs)
             => StagingTree' = StagingTree]_vars

\* C14: every step that changes the live directory is a step of the swap
\* taken by the sync process that holds the lock.
C14_LiveOnlyBySwap ==
    [][LiveTree' # LiveTree
          => \E p \in Procs :
                lock = p /\ pc[p] \in {"swap_rm", "swap_mv"} /\ pc'[p] # pc[p]]_vars

\* The causes of failure C16 names: transport error, response that is not
\* 2xx, corrupt archive.
TransientCauses == {"transport", "http", "corrupt"}

\* C16: download_with_retry makes at most MAX_RETRIES attempts, makes no
\* attempt after one that yielded a valid archive and returns exactly then,
\* and after MAX_RETRIES attempts that all failed by a transient cause it
\* has raised the final error, which it raises only after MAX_RETRIES
\* attempts.
C16_BoundedAttempts ==
    /\ Len(hist) <= MAX_RETRIES
    /\ \A i \in 1..(Len(hist) - 1) : hist[i] # "ok"
    /\ (ret = "returned") <=> (hist # <<>> /\ hist[Len(hist)] = "ok")
    /\ (/\ MAX_RETRIES >= 1
        /\ Len(hist) = MAX_RETRIES
        /\ \A i \in 1..Len(hist) : hist[i] \in TransientCauses) => ret = "failed"
    /\ (ret = "failed") => Len(hist) = MAX_RETRIES

\* Three attempts failed, one by each transient cause, and the final
\* error was raised.
C16_Witness ==
    ret = "failed" /\ hist = <<"transport", "http", "corrupt">>

\* C17: an attempt that fails by the size cap is the last attempt and ends
\* the call.
C17_OversizeNotRetried ==
    \A i \in 1..Len(hist) :
        hist[i] = "oversize" => (i = Len(hist) /\ ret # "loop")

\* C18: when the call has returned an archive exactly one temporary file
\* of the call exists; when it has raised none does.
C18_TempAccounting ==
    /\ (ret = "returned") => temps = 1
    /\ (ret \in {"failed", "url_error", "config_error"}) => temps = 0

\* C19: a run that is ending, by success or by an exception of any step
\* after the download, has no temporary zip file left.
C19_ArchiveDeleted ==
    \A p \in Procs : pc[p] \in {"release", "cleanup"} => ~zip[p]

\* C20: once the swap has completed, a run whose player detection, player
\* restart or heartbeat failed still ends with success, and the
\* notification step leaves the live directory as the swap made it.
C20_NotifyNeverFails ==
    /\ [](\A p \in Procs :
             (lock = p /\ pc[p] = "release" /\ logged # {})
                => (exit[p] = "ok" /\ failedAt = "none"))
    /\ [][\A p \in Procs :
             (pc[p] = "notify" /\ pc'[p] = "release") => LiveTree' = LiveTree]_vars

\* A run ends with success after the detection, the restart and the
\* heartbeat have all failed.
C20_Witness ==
    \E p \in Procs :
        /\ lock = p /\ pc[p] = "release" /\ exit[p] = "ok"
        /\ logged = {"detect", "restart", "heartbeat"}

\* C21: an invocation that is denied the lock ends in one step, with no
\* failure status, and leaves the marker, the staging directory and the
\* live directory as they are.
C21_DeniedChangesNothing ==
    /\ [](\A p \in Procs : pc[p] = "skipped" => exit[p] = "none")
    /\ [][\A p \in Procs :
             (pc[p] = "idle" /\ pc'[p] = "skipped")
                => (lock' = lock /\ StagingTree' = StagingTree /\ LiveTree' = LiveTree)]_vars

\* An invocation was denied while another run, holding the marker, has a
\* staging directory with files in it.
C21_Witness ==
    \E p, q \in Procs :
        /\ pc[q] = "skipped" /\ exit[q] = "none"
        /\ lock = p /\ pc[p] \in {"validate", "wait"}
        /\ StagingTree.exists /\ DOMAIN StagingTree.files # {}

\* C22: the run that holds the lock is at the extraction only with a
\* fetched archive on disk, at or past the validation only with the
\* extraction finished (the archive unlinked), in the swap or past it only
\* with a playlist validated in this run that kept an entry, at the
\* notification only with the staging directory renamed to the live path;
\* and the marker is absent only when no run is inside the pipeline.
C22_PipelineOrder ==
    /\ \A p \in Procs :
          lock = p =>
             /\ (pc[p] = "extract") => (arch # 0 /\ zip[p])
             /\ (pc[p] \in {"validate"} \cup PostValidatePcs) => (arch # 0 /\ ~zip[p])
             /\ (pc[p] \in PostValidatePcs) => (newTree # NoTree /\ Survivors # {})
             /\ (pc[p] = "notify") => (~StagingTree.exists /\ LiveTree.exists)
             /\ (pc[p] = "release") => (exit[p] = "ok" \/ failedAt # "none")
    /\ (lock = 0) => Holders = {}

\* A run has gone through fetch, extraction, validation, swap and
\* notification and is about to release the lock.
C22_Witness ==
    \E p \in Procs :
        /\ lock = p /\ pc[p] = "release" /\ exit[p] = "ok" /\ failedAt = "none"
        /\ arch = 1 /\ newTree # NoTree /\ LiveTree.exists

\* The stages of the pipeline up to and including the swap, by the step
\* at which each raises.
StageSteps == {"prepare", "fetch", "extract", "validate", "swap_mv"}

\* C23: a run that took the lock ends with the failing status exactly when
\* a stage up to and including the swap raised, and with a normal return
\* exactly when no step raised; it ends with one of the two.
C23_ExitContract ==
    \A p \in Procs :
        /\ (lock = p /\ pc[p] = "release") =>
              /\ (exit[p] = "fail") <=> (failedAt \in StageSteps)
              /\ (exit[p] = "ok") <=> (failedAt = "none")
        /\ (pc[p] \in {"release", "cleanup"}) => exit[p] \in {"ok", "fail"}
        /\ (lock = p /\ pc[p] \in (LockedPcs \ {"release"})) => exit[p] = "none"

\* A run whose rename of the swap raised ends with the failing status.
C23_Witness ==
    \E p \in Procs :
        lock = p /\ pc[p] = "release" /\ exit[p] = "fail" /\ failedAt = "swap_mv"

\* C24: the step that prepares the staging directory leaves it existing
\* and empty, whatever was there before, and a clean-up at the end of a
\* run that removes anything leaves no staging directory.
C24_StagingLifecycle ==
    [][\A p \in Procs :
          /\ (pc[p] = "prepare" /\ pc'[p] = "fetch")
                => (StagingTree'.exists /\ DOMAIN StagingTree'.files = {})
          /\ (pc[p] = "cleanup" /\ pc'[p] = "idle" /\ <<files, dirs>>' # <<files, dirs>>)
                => ~StagingTree'.exists]_vars

\* Support for the C24 finding: when the rmtree call of the step meets no
\* error, the staging directory is empty after the preparation and absent
\* after the clean-up.
CleanRemovalEmptiesStaging ==
    [][\A p \in Procs :
          faults' = faults =>
             /\ (pc[p] = "prepare" /\ pc'[p] = "fetch")
                   => (StagingTree'.exists /\ DOMAIN StagingTree'.files = {})
             /\ (pc[p] = "cleanup" /\ pc'[p] = "idle" /\ <<files, dirs>>' # <<files, dirs>>)
                   => ~StagingTree'.exists]_vars

\* C25: after two consecutive successful runs on the same remote content
\* the live directory is what it was after the first of them.
C25_Idempotent ==
    (runs >= 2 /\ failedAt = "none") => LiveTree = liveAtStart

\* Support for the C25 finding: when no rmtree call met an error and the
\* folder holds one playlist, two consecutive successful runs leave the
\* same live directory.
CleanRunsIdempotent ==
    (runs >= 2 /\ failedAt = "none" /\ faults = 0 /\ arch \in ArchiveIds)
       => LiveTree = liveAtStart

\* The sleeps a call that has made n failed attempts and goes on has made.
Schedule(n) == [k \in 1..n |-> RETRY_DELAY * k]

\* The failed attempts of the call that were followed by a sleep.
SleptAfter ==
    IF ret = "loop" THEN Len(hist)
    ELSE IF hist = <<>> THEN 0
    ELSE Len(hist) - 1

\* C26: after failed attempt k < MAX_RETRIES the call sleeps RETRY_DELAY * k
\* before attempt k + 1, it does not sleep after the final failed attempt,
\* and the temporary file of the failed attempt is gone before the sleep.
C26_Backoff ==
    /\ slept = Schedule(SleptAfter)
    /\ (ret = "failed") => Len(slept) = MAX_RETRIES - 1
    /\ \A k \in 1..Len(slept) : Left(hist[k]) = 0

\* Support for the C26 finding: the sleeps themselves follow the schedule.
BackoffSchedule ==
    /\ slept = Schedule(SleptAfter)
    /\ (ret = "failed") => Len(slept) = MAX_RETRIES - 1

\* C27: no temporary file of cap bytes or more is written and no attempt
\* with that much data is saved; a body of cap - 1 bytes passes the size
\* test and a body of cap bytes or more fails it.
C27_SizeCap ==
    /\ written < MAX_ZIP_SIZE
    /\ (ret = "saved") => (written = data /\ body = 0 /\ data < MAX_ZIP_SIZE)
    /\ (ret \in {"saved", "write_error", "oversize"} /\ body + data = MAX_ZIP_SIZE - 1)
          => ret # "oversize"
    /\ (ret \in {"saved", "write_error", "oversize"} /\ body + data >= MAX_ZIP_SIZE)
          => (ret = "oversize" /\ written = -1)

C27_Witness ==
    /\ ret = "saved"
    /\ written = MAX_ZIP_SIZE - 1

\* C28: a validation that is terminated leaves the playlist with the
\* complete lines it had or with the complete rewritten lines.
C28_AtomicRewrite ==
    (pc[1] = "v_killed")
       => files[PlaylistPath].lines \in {vin, Flatten(vres)}

\* A directive or a blank line.
IsText(line) == line.k # "ref"

\* The input lines that contributed a line to the output.
Kept == {i \in 1..Len(vres) : vres[i] # <<>>}

\* The position among the kept lines of input line i.
Rank(i) == Cardinality({j \in Kept : j <= i})

\* C29: in the playlist a validation has written, the directive and blank
\* lines are those of the input, verbatim and in order, every kept line
\* stands at its relative position, and only reference lines are missing.
C29_StructureKept ==
    (pc[1] = "v_done") =>
       LET out == files[PlaylistPath].lines IN
          /\ SelectSeq(out, IsText) = SelectSeq(vin, IsText)
          /\ Len(out) = Cardinality(Kept)
          /\ \A i \in Kept : out[Rank(i)] = IF IsText(vin[i]) THEN vin[i] ELSE vres[i][1]
          /\ \A i \in (1..Len(vin)) \ Kept : vin[i].k = "ref"
          /\ \A i \in Kept : ~IsText(vin[i]) =>
                /\ out[Rank(i)].k = "ref"
                /\ MediaFile(vin[i]) = <<STAGING_DIR \o out[Rank(i)].segs>>

\* A written playlist that held a directive, a blank line, a reference
\* that was dropped and, after those, one that was kept.
C29_Witness ==
    /\ pc[1] = "v_done"
    /\ Len(vin) = 4
    /\ vin[1].k = "comment"
    /\ vin[2].k = "ref" /\ vres[2] = <<>>
    /\ vin[3].k = "blank"
    /\ vin[4].k = "ref" /\ vres[4] # <<>>

\* The entry has a path component that begins with '.'.
HasDotComponent(e) == \E i \in 1..Len(e.segs) : StartsWithDot(e.segs[i])

\* Where C30 places an entry: its path without the first segment when it
\* has more than one, its own name otherwise.
Placed(e) == STAGING_DIR \o (IF Len(e.segs) > 1 THEN Tail(e.segs) ELSE e.segs)

\* C30: a directory entry or an entry with a path component beginning
\* with '.' is not written; any other entry is written at the staging root
\* under its path without the first segment, or under its own name when it
\* has one segment.
C30_Placement ==
    (pc[1] = "x_done") =>
       IF entry.dir \/ HasDotComponent(entry)
          THEN DOMAIN files = {}
          ELSE DOMAIN files = {Placed(entry)}

\* Support for the C30 finding: directory entries are never written, and
\* an entry without any component beginning with '.' is placed as C30 says.
PlainEntriesPlaced ==
    (pc[1] = "x_done") =>
       /\ entry.dir => DOMAIN files = {}
       /\ (~entry.dir /\ ~HasDotComponent(entry)) => DOMAIN files = {Placed(entry)}

\* The playlists at the top of the live directory.
LivePlaylists ==
    {r \in DOMAIN LiveTree.files : Len(r) = 1 /\ EndsWithM3u(r[1])}

\* The published playlists no validation has rewritten: they hold the
\* lines of their archive entry, among them a media entry that validation
\* drops or rewrites (an absolute one, or one that names no file).
Unvalidated ==
    {r \in LivePlaylists :
        LET d == LiveTree.files[r] IN
           /\ d.src[1] # 0
           /\ d.lines = Archive(d.src[1])[d.src[2]].lines
           /\ \E j \in 1..Len(d.lines) :
                 /\ d.lines[j].k = "ref"
                 /\ (d.lines[j].abs \/ d.lines[j].segs \notin DOMAIN LiveTree.files)}

\* C31: after a successful sync every playlist of the live directory has
\* been validated, the one with the conventional name before any other.
C31_PlaylistSelection ==
    (runs >= 1 /\ failedAt = "none") => Unvalidated = {}

\* Support for the C31 finding: a folder with one playlist is published
\* with that playlist validated.
SinglePlaylistValidated ==
    (runs >= 1 /\ failedAt = "none" /\ arch \in ArchiveIds) => Unvalidated = {}

\* Support for the C31 finding: the playlist with the conventional name can
\* be the one that is published without validation.
ConventionalNameValidated ==
    (runs >= 1 /\ failedAt = "none") => <<"playlist.m3u">> \notin Unvalidated

\* What holds at every point of the wait: the passes are bounded by the
\* timeout, the loop goes on only while the player runs and lsof found
\* open files (or failed), True is returned on the first pass that saw
\* otherwise, and False only once the timeout has elapsed.
WaitContract ==
    /\ polls <= WAIT_TIMEOUT
    /\ (pc[1] = "w_loop" /\ polls > 0) => (seen.running /\ seen.lsof # "nonzero")
    /\ (pc[1] = "w_true") => (~seen.running \/ seen.lsof = "nonzero")
    /\ (pc[1] = "w_false") => elapsed >= WAIT_TIMEOUT

\* C32: the wait before the swap ends after a bounded number of passes,
\* with True as soon as the player is not running or holds no open file
\* and with False once the timeout has elapsed, and the swap follows in
\* both cases.
C32_WaitTerminates ==
    /\ []WaitContract
    /\ <>(pc[1] = "swap_rm")

\* The swap is reached after a wait that used up the timeout.
C32_Witness ==
    /\ pc[1] = "swap_rm"
    /\ elapsed >= WAIT_TIMEOUT
    /\ polls >= 2

\* C33: a call of download_with_retry that has ended has returned the
\* archive of a successful attempt or has raised; it has not returned
\* without a path, whatever MAX_RETRIES is.
C33_ArchiveOrRaise ==
    /\ ret # "none"
    /\ (ret = "returned") => (hist # <<>> /\ hist[Len(hist)] = "ok" /\ temps >= 1)

\* Support for the C33 finding: with MAX_RETRIES of at least 1 the call
\* returns the archive of a successful attempt or raises.
ArchiveOrRaiseWhenPositive ==
    (MAX_RETRIES >= 1) => C33_ArchiveOrRaise

\* C34: an attempt that fails by an unknown URL type is the last attempt:
\* the error is raised again at once, with no sleep after it, on any
\* attempt and for any MAX_RETRIES.
C34_UrlTypeAborts ==
    \A i \in 1..Len(hist) :
        hist[i] = "url_type" => (i = Len(hist) /\ ret = "url_error" /\ Len(slept) = i - 1)

\* The error was raised again on the second of three attempts allowed.
C34_Witness ==
    /\ ret = "url_error"
    /\ MAX_RETRIES = 3
    /\ hist = <<"transport", "url_type">>
    /\ Len(slept) = 1

\* The update() invocations that hold the marker.
UpdateHolders == {p \in Procs : pc[p] \in UpdateLockedPcs}

\* C35: at most one update() is between the creation and the removal of
\* its marker, an invocation that finds the marker returns without touching
\* the marker, the files or the services, and an invocation that created
\* the marker has removed it when it ends, however it ends.
C35_UpdateExclusion ==
    /\ [](/\ \A p \in UpdateHolders : ulock = p
          /\ \A p \in Procs : pc[p] = "u_done" => ulock # p)
    /\ [][\A p \in Procs :
             (pc[p] = "idle" /\ pc'[p] = "u_skipped")
                => (ulock # 0 /\ UNCHANGED <<ulock, local, restarts, step, outcome>>)]_vars

\* One invocation was skipped while another was downloading, and the
\* other has ended by an exception with the marker removed.
C35_Witness ==
    \E p, q \in Procs :
        /\ pc[p] = "u_skipped"
        /\ pc[q] = "u_done" /\ exit[q] = "fail"
        /\ ulock = 0

\* C36: update() starts installing only when the installed version and the
\* remote version are both known and the installed one is strictly lower.
C36_InstallOnlyNewer ==
    \A p \in Procs :
        (pc[p] = "u_files" /\ step = 1 /\ local[1] = "old")
           => (oldVer.num /\ remoteVer.num /\ TupleLess(oldVer.parts, remoteVer.parts))

\* Support for the C36 finding: compare_versions orders dotted versions by
\* their numbers, is antisymmetric, and gives 0 exactly for equal versions.
CompareOrdersVersions ==
    /\ compare_versions(Version(<<1, 0, 9>>), Version(<<1, 0, 10>>)) = -1
    /\ compare_versions(Version(<<1, 1>>), Version(<<1, 0, 10>>)) = 1
    /\ \A a, b \in Versions :
          /\ compare_versions(a, b) = -compare_versions(b, a)
          /\ (compare_versions(a, b) = 0) <=> (a = b)
          /\ (a.num /\ b.num) => ((compare_versions(a, b) = -1) <=> TupleLess(a.parts, b.parts))

\* Support for the C36 finding: with both versions known, update() starts
\* installing only when the installed one is strictly lower.
InstallOnlyNewerWhenKnown ==
    \A p \in Procs :
        (pc[p] = "u_files" /\ step = 1 /\ local[1] = "old" /\ oldVer.num /\ remoteVer.num)
           => TupleLess(oldVer.parts, remoteVer.parts)

\* The outcomes of a pass in which the download or the validation failed.
PassFailures == {"http", "oversize", "syntax", "utf8"}

\* C37: a file changes only in a pass whose content was read below the
\* limit and validated, a pass that failed leaves its file as it was, the
\* loop goes on to the next file after any pass, and the step after the
\* loop restarts the services.
C37_PerFileFailure ==
    [][\A p \in Procs :
          /\ (pc[p] = "u_files" /\ <<pc[p], updating>>' # <<pc[p], updating>>) =>
                /\ \A i \in 1..Len(files_to_download) :
                      /\ (local'[i] # local[i]) => (i = step /\ outcome'[i] \in {"ok", "write_fail"})
                      /\ (i = step /\ outcome'[i] \in PassFailures) => local'[i] = local[i]
                /\ step' = step + 1
          /\ (pc[p] = "u_files") => pc'[p] \in {"u_files", "u_finish"}
          /\ (pc[p] = "u_finish" /\ pc'[p] # "u_finish") => restarts' = restarts + 1]_vars

\* Support for the C37 finding: the loop itself is as C37 says.
LoopSurvivesFailures ==
    [][\A p \in Procs :
          /\ (pc[p] = "u_files" /\ <<pc[p], updating>>' # <<pc[p], updating>>) =>
                /\ \A i \in 1..Len(files_to_download) :
                      /\ (local'[i] # local[i]) => (i = step /\ outcome'[i] \in {"ok", "write_fail"})
                      /\ (i = step /\ outcome'[i] \in PassFailures) => local'[i] = local[i]
                /\ step' = step + 1
          /\ (pc[p] = "u_files") => pc'[p] \in {"u_files", "u_finish"}]_vars

\* C38: in a run of the bootloader with run_vlc_after_update set that
\* returned from the try block, the player was started exactly once, and
\* the player is never started before the check and the install of the run
\* have finished.
C38_PlayerOnce ==
    /\ launches <= 1
    /\ launches >= 1 => pc[1] \in {"b_vlc", "b_done"}
    /\ (pc[1] = "b_done" /\ env.flag) => launches = 1

\* The same on a device where the player's command can be started.
PlayerOnceWhenStartable == env.player => C38_PlayerOnce

\* What check_for_updates reported fits what it saw: an update only with
\* a remote version that differs from the local one or with no local one.
OfferSound ==
    /\ offer.avail => (offer.remote # "none" /\ (offer.local = "none" \/ offer.local # offer.remote))
    /\ offer.remote = "none" => (~offer.avail /\ offer.ver = "none")
    /\ pc[1] = "b_install" => (offer.avail /\ offer.ver = offer.remote)

\* After a failed install, the next check that obtains the remote version
\* reports the update again.
FailedIsRetried ==
    (installRes = "failed" /\ pc[1] \in {"b_install", "b_after"} /\ offer.remote # "none")
       => offer.avail

\* C39: check_for_updates reports an update only when the remote version
\* was obtained and differs from the local one or the local one is unknown;
\* the version file changes only in an install that succeeds, to the
\* version offered; a failed install leaves it as it was and the update is
\* offered again on the next run.
C39_VersionRecorded ==
    /\ [](OfferSound /\ FailedIsRetried)
    /\ [][/\ recorded' # recorded
             => (pc[1] = "b_install" /\ installRes' = "ok" /\ recorded' = offer.ver)
          /\ (pc[1] = "b_install" /\ installRes' = "failed") => recorded' = recorded]_vars

\* A second run is about to retry the install that failed in the first.
C39_Witness ==
    /\ runs = 2
    /\ installRes = "failed"
    /\ pc[1] = "b_install"

=============================================================================
